---- MODULE Spec2Model ----
(***************************************************************************)
(* The board simulation engine of reverse-tetris (src/index.js and the     *)
(* second variant src/unnamed/part_000): grid, flood fill, gravity, line   *)
(* clearing, the anti-degenerate row probe, spawning, the single-slot fall *)
(* animation and the pointer handlers.  Every operator takes and returns   *)
(* the record `w` of the mutable globals of the script.                    *)
(***************************************************************************)
EXTENDS Integers, Sequences, FiniteSets, TLC

----------------------------------------------------------------------------
(* Board dimensions and limits, scaled down from the source values          *)
(* (WIDTH 10, HEIGHT 20, MAX_BLOCK_SPAWN 7, 20 retries, 3 or 4 colours).    *)
WIDTH == 3
HEIGHT == 3
MAX_BLOCK_SPAWN == 2
RETRY_BOUND == 1
PaletteSize == 1
(* Limits on the counters that grow without bound in the program. *)
MaxBlockId == 3
MaxTopLine == 5
(* The row generator on its own: a wider row, a larger budget of filled    *)
(* cells, and the id counter up to which a row is started.                  *)
GenWidth == 7
GenMaxSpawn == 6
GenMaxId == 8
(* The flood fill on its own: grids holding any arrangement of the block    *)
(* ids 1..FloodIds.                                                         *)
FloodIds == 1
(* The row-shift count up to which a block may be picked up on those grids. *)
DropTopLine == 0
(* Frame gaps offered to the tick driver: 1..MaxTickGap times TickUnit ms. *)
TickUnit == 60
MaxTickGap == 2

(* Program constants. *)
CELL_SIZE == 35
MAX_SEGMENT_LEN == 4
FALL_ANIMATION_PER_ROW == 120
MIN_FALL_DURATION == 120
BOOT_SPAWNS == 5
COLOR_BACKGROUND == "black"
PALETTE == <<"green", "white", "blue">>
colors == SubSeq(PALETTE, 1, PaletteSize) \o <<COLOR_BACKGROUND>>

(* null: for object-valued globals, for the row buffer, for a blockId, for  *)
(* a startTime.                                                             *)
NULL == [null |-> TRUE]
NO_ROW == << >>
NO_BLOCK == 0
NO_TIME == -1

Min(a, b) == IF a <= b THEN a ELSE b
Max(a, b) == IF a >= b THEN a ELSE b

----------------------------------------------------------------------------
(* Cells and the flat grid. *)
idx(x, y) == y * WIDTH + x

makeCell(color, blockId) == [color |-> color, blockId |-> blockId]

isEmptyCell(cell) == cell.color = COLOR_BACKGROUND

EmptyGrid == [i \in 0..(WIDTH * HEIGHT - 1) |-> makeCell(COLOR_BACKGROUND, NO_BLOCK)]

EmptyRow == [x \in 0..(WIDTH - 1) |-> makeCell(COLOR_BACKGROUND, NO_BLOCK)]

Pos(x, y) == [x |-> x, y |-> y]

(* A write that sets the colour of a cell and leaves the id it had. *)
WriteCells_KeepsOldId(g, cells, dy, color, blockId) ==
  LET targets == {idx(cells[i].x, cells[i].y + dy) : i \in 1..Len(cells)}
  IN  [i \in DOMAIN g |-> IF i \in targets THEN [g[i] EXCEPT !.color = color] ELSE g[i]]

(* for (const cell of cells) grid[idx(cell.x, cell.y + dy)] = makeCell(color, id) *)
WriteCells(g, cells, dy, color, blockId) ==
  LET targets == {idx(cells[i].x, cells[i].y + dy) : i \in 1..Len(cells)}
  IN  [i \in DOMAIN g |-> IF i \in targets THEN makeCell(color, blockId) ELSE g[i]]

(* An allocator that starts again at 1 after 2. *)
nextBlockId_StartsAgain(counter) == (counter % 2) + 1

(* blockCounter += 1; return blockCounter *)
nextBlockId(counter) == counter + 1

(* One step of a handler, added to the trace when calls are logged: what    *)
(* happened, and the grid, the score, the row-shift count and whether an    *)
(* animation is pending at that moment.                                     *)
Traced(w, ev, n) ==
  IF w.call.on
  THEN [w EXCEPT !.call.trace =
          Append(@, [ev |-> ev, n |-> n, grid |-> w.grid, score |-> w.score,
                     topLine |-> w.topLine, anim |-> w.fallingAnimation # NULL])]
  ELSE w

(* A shift that leaves the bottom row as it was. *)
moveBlocksUp_KeepsBottomRow(w) ==
  Traced([Traced(w, "shift", 0) EXCEPT
            !.topLine = w.topLine + 1,
            !.grid = [i \in DOMAIN w.grid |->
                        IF i \div WIDTH < HEIGHT - 1
                        THEN w.grid[i + WIDTH]
                        ELSE w.grid[i]]],
         "shifted", 0)

moveBlocksUp(w) ==
  Traced([Traced(w, "shift", 0) EXCEPT
            !.topLine = w.topLine + 1,
            !.grid = [i \in DOMAIN w.grid |->
                        IF i \div WIDTH < HEIGHT - 1
                        THEN w.grid[i + WIDTH]
                        ELSE makeCell(COLOR_BACKGROUND, NO_BLOCK)]],
         "shifted", 0)

(* for (x...) grid[idx(x, HEIGHT - 1)] = copyCell(row[x]) *)
WriteBottomRow(g, row) ==
  [i \in DOMAIN g |-> IF i \div WIDTH = HEIGHT - 1 THEN row[i % WIDTH] ELSE g[i]]

----------------------------------------------------------------------------
(* Row generation.  Math.random is a choice: the operator yields the set of *)
(* every [row, blockCounter] a call can return from a given counter.  A     *)
(* coloured segment is drawn only while the id counter is below MaxBlockId. *)
(* A segment length limit that forgets the cells already spawned. *)
MaxLen_IgnoresSpawned(width, maxSpawn, x, spawned) ==
  Min(MAX_SEGMENT_LEN, Min(maxSpawn, width - x))

(* Math.min(4, MAX_BLOCK_SPAWN - spawned, WIDTH - x) *)
MaxLen(width, maxSpawn, x, spawned) ==
  Min(MAX_SEGMENT_LEN, Min(maxSpawn - spawned, width - x))

(* The loop of generateNextRow for a row of `width` cells and at most       *)
(* `maxSpawn` filled ones, with ids below `maxId`.                          *)
RECURSIVE GenerateRow(_, _, _, _, _, _, _)
GenerateRow(width, maxSpawn, maxId, x, spawned, counter, row) ==
  IF ~(x < width /\ spawned < maxSpawn)
  THEN {[row |-> row, blockCounter |-> counter]}
  ELSE
    LET maxLen == MaxLen(width, maxSpawn, x, spawned)
    IN  IF maxLen <= 0
        THEN {[row |-> row, blockCounter |-> counter]}
        ELSE UNION {
          IF colors[c] = COLOR_BACKGROUND
          THEN GenerateRow(width, maxSpawn, maxId, x + len, spawned, counter, row)
          ELSE IF counter >= maxId
               THEN {}
               ELSE GenerateRow(width, maxSpawn, maxId, x + len, spawned + len,
                      nextBlockId(counter),
                      [bx \in DOMAIN row |->
                         IF bx >= x /\ bx < x + len
                         THEN makeCell(colors[c], nextBlockId(counter))
                         ELSE row[bx]])
          : c \in 1..Len(colors), len \in 1..maxLen }

GenerateFrom(x, spawned, counter, row) ==
  GenerateRow(WIDTH, MAX_BLOCK_SPAWN, MaxBlockId, x, spawned, counter, row)

generateNextRow(counter) == GenerateFrom(0, 0, counter, EmptyRow)

----------------------------------------------------------------------------
(* Flood fill: explicit stack, seen-set keyed by coordinates, cells in the  *)
(* order they are pushed on the result.                                     *)
(* A fill that follows the neighbours to the left and right only. *)
RECURSIVE Flood_SidewaysOnly(_, _, _, _, _)
Flood_SidewaysOnly(g, blockId, toVisit, seen, cells) ==
  IF Len(toVisit) = 0
  THEN cells
  ELSE
    LET p    == toVisit[Len(toVisit)]
        rest == SubSeq(toVisit, 1, Len(toVisit) - 1)
    IN  IF p.x < 0 \/ p.x >= WIDTH \/ p.y < 0 \/ p.y >= HEIGHT
        THEN Flood_SidewaysOnly(g, blockId, rest, seen, cells)
        ELSE IF g[idx(p.x, p.y)].blockId # blockId
        THEN Flood_SidewaysOnly(g, blockId, rest, seen, cells)
        ELSE
          LET neighbors == << Pos(p.x + 1, p.y), Pos(p.x - 1, p.y) >>
              fresh == SelectSeq(neighbors, LAMBDA n : n \notin seen)
          IN  Flood_SidewaysOnly(g, blockId, rest \o fresh,
                                 seen \cup {neighbors[i] : i \in 1..2},
                                 Append(cells, p))

RECURSIVE Flood(_, _, _, _, _)
Flood(g, blockId, toVisit, seen, cells) ==
  IF Len(toVisit) = 0
  THEN cells
  ELSE
    LET p    == toVisit[Len(toVisit)]
        rest == SubSeq(toVisit, 1, Len(toVisit) - 1)
    IN  IF p.x < 0 \/ p.x >= WIDTH \/ p.y < 0 \/ p.y >= HEIGHT
        THEN Flood(g, blockId, rest, seen, cells)
        ELSE IF g[idx(p.x, p.y)].blockId # blockId
        THEN Flood(g, blockId, rest, seen, cells)
        ELSE
          LET neighbors == << Pos(p.x + 1, p.y), Pos(p.x - 1, p.y),
                              Pos(p.x, p.y + 1), Pos(p.x, p.y - 1) >>
              fresh == SelectSeq(neighbors, LAMBDA n : n \notin seen)
          IN  Flood(g, blockId, rest \o fresh,
                    seen \cup {neighbors[i] : i \in 1..4},
                    Append(cells, p))

(* A fill that returns the start cell alone. *)
collectBlockCells_StartOnly(g, startX, startY, blockId) ==
  IF blockId = NO_BLOCK \/ g[idx(startX, startY)].blockId # blockId
  THEN << >>
  ELSE << Pos(startX, startY) >>

collectBlockCells(g, startX, startY, blockId) ==
  IF blockId = NO_BLOCK
  THEN << >>
  ELSE Flood(g, blockId, << Pos(startX, startY) >>, {Pos(startX, startY)}, << >>)

----------------------------------------------------------------------------
(* The maximal-fall loop shared by applyGravity and computeDropDistance.    *)
(* A fall that stops only at the floor, whatever lies in between. *)
DropLoop_IgnoresBlocks(g, cells, dropDistance) ==
  LET lowest == CHOOSE y \in {cells[i].y : i \in 1..Len(cells)} :
                  \A i \in 1..Len(cells) : cells[i].y <= y
  IN  Max(dropDistance, HEIGHT - 1 - lowest)

(* A fall measured under the first cell of the block only. *)
RECURSIVE DropLoop_FirstCellOnly(_, _, _)
DropLoop_FirstCellOnly(g, cells, dropDistance) ==
  IF \/ cells[1].y + dropDistance + 1 >= HEIGHT
     \/ ~isEmptyCell(g[idx(cells[1].x, cells[1].y + dropDistance + 1)])
  THEN dropDistance
  ELSE DropLoop_FirstCellOnly(g, cells, dropDistance + 1)

RECURSIVE DropLoop(_, _, _)
DropLoop(g, cells, dropDistance) ==
  IF \E i \in 1..Len(cells) :
       \/ cells[i].y + dropDistance + 1 >= HEIGHT
       \/ ~isEmptyCell(g[idx(cells[i].x, cells[i].y + dropDistance + 1)])
  THEN dropDistance
  ELSE DropLoop(g, cells, dropDistance + 1)

computeDropDistance(g, cells) == DropLoop(g, cells, 0)

----------------------------------------------------------------------------
(* Gravity.  One sweep visits the rows bottom to top and, in a row, the     *)
(* columns left to right.  The sweeps repeat until one moves nothing.       *)

(* A placement that skips the rightmost column of every row. *)
SweepOrder_SkipsLastColumn ==
  [n \in 1..((WIDTH - 1) * HEIGHT) |->
     Pos((n - 1) % (WIDTH - 1), HEIGHT - 1 - ((n - 1) \div (WIDTH - 1)))]

(* A sweep that visits the rows top to bottom. *)
SweepOrder_TopToBottom ==
  [n \in 1..(WIDTH * HEIGHT) |-> Pos((n - 1) % WIDTH, (n - 1) \div WIDTH)]

(* for (let y = HEIGHT - 1; y >= 0; y--) for (let x = 0; x < WIDTH; x++) *)
SweepOrder ==
  [n \in 1..(WIDTH * HEIGHT) |-> Pos((n - 1) % WIDTH, HEIGHT - 1 - ((n - 1) \div WIDTH))]

RECURSIVE GravitySweep(_, _, _, _, _, _)
GravitySweep(g, n, processedBlocks, moves, moved, collectMoves) ==
  IF n > Len(SweepOrder)
  THEN [grid |-> g, moves |-> moves, moved |-> moved]
  ELSE
    LET y    == SweepOrder[n].y
        x    == SweepOrder[n].x
        cell == g[idx(x, y)]
    IN  IF isEmptyCell(cell)
        THEN GravitySweep(g, n + 1, processedBlocks, moves, moved, collectMoves)
        ELSE IF cell.blockId = NO_BLOCK \/ cell.blockId \in processedBlocks
        THEN GravitySweep(g, n + 1, processedBlocks, moves, moved, collectMoves)
        ELSE
          LET done == processedBlocks \cup {cell.blockId}
              Fall(cells, dropDistance) ==
                IF dropDistance = 0
                THEN GravitySweep(g, n + 1, done, moves, moved, collectMoves)
                ELSE
                  LET cleared == WriteCells(g, cells, 0, COLOR_BACKGROUND, NO_BLOCK)
                      written == WriteCells(cleared, cells, dropDistance,
                                            cell.color, cell.blockId)
                      move    == [cells |-> cells, color |-> cell.color,
                                  blockId |-> cell.blockId,
                                  dropDistance |-> dropDistance]
                  IN  GravitySweep(written, n + 1, done,
                                   IF collectMoves THEN Append(moves, move) ELSE moves,
                                   TRUE, collectMoves)
              Block(cells) ==
                IF Len(cells) = 0
                THEN GravitySweep(g, n + 1, processedBlocks, moves, moved, collectMoves)
                ELSE Fall(cells, DropLoop(g, cells, 0))
          IN  Block(collectBlockCells(g, x, y, cell.blockId))

RECURSIVE GravityLoop(_, _, _, _)
GravityLoop(g, moves, movedAny, collectMoves) ==
  LET While(sweep) ==
        IF sweep.moved
        THEN GravityLoop(sweep.grid, sweep.moves, TRUE, collectMoves)
        ELSE [grid |-> sweep.grid, moves |-> sweep.moves, moved |-> movedAny]
  IN  While(GravitySweep(g, 1, {}, moves, FALSE, collectMoves))

(* The record of one engine call, added to the log when calls are logged;  *)
(* a frame that finds an animation is logged too, with the time elapsed     *)
(* since the animation's start as its ret.                                  *)
Logged(w, op, gated, before, after, ret) ==
  IF w.call.on
  THEN [w EXCEPT !.call.log = @ \cup {[op |-> op, gated |-> gated, before |-> before,
                                        after |-> after, ret |-> ret]}]
  ELSE w

(* A gravity that runs whether or not a block is held or falling. *)
applyGravity_NeverGated(w, collectMoves) ==
  LET Return(r) ==
        [w |-> Logged([w EXCEPT !.grid = r.grid], "applyGravity", FALSE,
                      w.grid, r.grid, IF r.moved THEN 1 ELSE 0),
         moved |-> r.moved, moves |-> r.moves]
  IN  Return(GravityLoop(w.grid, << >>, FALSE, collectMoves))

applyGravity(w, collectMoves) ==
  IF w.selectedBlock # NULL \/ w.fallingAnimation # NULL
  THEN [w |-> Logged(w, "applyGravity", TRUE, w.grid, w.grid, 0),
        moved |-> FALSE, moves |-> << >>]
  ELSE LET Return(r) ==
             [w |-> Logged([w EXCEPT !.grid = r.grid], "applyGravity", FALSE,
                           w.grid, r.grid, IF r.moved THEN 1 ELSE 0),
              moved |-> r.moved, moves |-> r.moves]
       IN  Return(GravityLoop(w.grid, << >>, FALSE, collectMoves))

----------------------------------------------------------------------------
(* Line clearing. *)
(* A fullness test that stops one column short. *)
RowIsFull_IgnoresLastColumn(g, y) == \A x \in 0..(WIDTH - 2) : ~isEmptyCell(g[idx(x, y)])

RowIsFull(g, y) == \A x \in 0..(WIDTH - 1) : ~isEmptyCell(g[idx(x, y)])

clearFullLines(w) ==
  LET full    == {y \in 0..(HEIGHT - 1) : RowIsFull(w.grid, y)}
      cleared == Cardinality(full)
      emptied == [i \in DOMAIN w.grid |->
                    IF (i \div WIDTH) \in full
                    THEN makeCell(COLOR_BACKGROUND, NO_BLOCK)
                    ELSE w.grid[i]]
  IN  [w |-> Logged([w EXCEPT
                       !.grid = emptied,
                       !.hoveredBlock = IF cleared > 0 THEN NULL ELSE w.hoveredBlock],
                    "clearFullLines", FALSE, w.grid, emptied, cleared),
       cleared |-> cleared]

(* What a settled board is: every block rests and no row is full. *)
BlockIds(g) == {g[i].blockId : i \in DOMAIN g} \ {NO_BLOCK}

CellsOf(g, id) ==
  {p \in [x : 0..(WIDTH - 1), y : 0..(HEIGHT - 1)] : g[idx(p.x, p.y)].blockId = id}

(* A block rests when one of its cells is on the floor or on another block. *)
Rests(g, id) ==
  \E p \in CellsOf(g, id) :
    \/ p.y = HEIGHT - 1
    \/ /\ ~isEmptyCell(g[idx(p.x, p.y + 1)])
       /\ g[idx(p.x, p.y + 1)].blockId # id

Stable(g) ==
  /\ \A id \in BlockIds(g) : Rests(g, id)
  /\ \A y \in 0..(HEIGHT - 1) : ~RowIsFull(g, y)

----------------------------------------------------------------------------
(* settleBoard({animate: false}) up to its onComplete call: the loop of     *)
(* gravity and clearing, then the single addition to the score.             *)

RECURSIVE SettleLoop(_, _)
SettleLoop(w, totalCleared) ==
  LET While(c) ==
        IF c.cleared = 0
        THEN [w |-> c.w, totalCleared |-> totalCleared]
        ELSE SettleLoop(c.w, totalCleared + c.cleared)
  IN  While(clearFullLines(applyGravity(w, FALSE).w))

(* A settle that returns the count without adding it to the score. *)
SettleNow_LeavesScore(w) ==
  LET Return(r) ==
        [w |-> Traced(r.w, "settled", r.totalCleared),
         totalCleared |-> r.totalCleared]
  IN  Return(SettleLoop(Traced(w, "settle", 0), 0))

SettleNow(w) ==
  LET Return(r) ==
        [w |-> Traced([r.w EXCEPT !.score = r.w.score + r.totalCleared],
                      "settled", r.totalCleared),
         totalCleared |-> r.totalCleared]
  IN  Return(SettleLoop(Traced(w, "settle", 0), 0))

(* A probe that puts the score back to zero, not to what it was. *)
rowWouldClearLines_ZeroesScore(w, row) ==
  IF row = NO_ROW
  THEN [w |-> w, result |-> FALSE]
  ELSE
    LET snapshot == w
        suspended == [w EXCEPT !.hoveredBlock = NULL, !.selectedBlock = NULL,
                               !.fallingAnimation = NULL]
        shifted == moveBlocksUp(suspended)
        tried   == [shifted EXCEPT !.grid = WriteBottomRow(shifted.grid, row)]
        Restore(settled) ==
          [w |-> [settled.w EXCEPT
                    !.grid = snapshot.grid,
                    !.topLine = snapshot.topLine,
                    !.score = 0,
                    !.hoveredBlock = snapshot.hoveredBlock,
                    !.selectedBlock = snapshot.selectedBlock,
                    !.fallingAnimation = snapshot.fallingAnimation],
           result |-> settled.totalCleared > 0]
    IN  Restore(SettleNow(tried))

(* A probe that forgets to put the score back. *)
rowWouldClearLines_KeepsTrialScore(w, row) ==
  IF row = NO_ROW
  THEN [w |-> w, result |-> FALSE]
  ELSE
    LET snapshot == w
        suspended == [w EXCEPT !.hoveredBlock = NULL, !.selectedBlock = NULL,
                               !.fallingAnimation = NULL]
        shifted == moveBlocksUp(suspended)
        tried   == [shifted EXCEPT !.grid = WriteBottomRow(shifted.grid, row)]
        Restore(settled) ==
          [w |-> [settled.w EXCEPT
                    !.grid = snapshot.grid,
                    !.topLine = snapshot.topLine,
                    !.hoveredBlock = snapshot.hoveredBlock,
                    !.selectedBlock = snapshot.selectedBlock,
                    !.fallingAnimation = snapshot.fallingAnimation],
           result |-> settled.totalCleared > 0]
    IN  Restore(SettleNow(tried))

(* The anti-degenerate probe: snapshot, try the row, settle, restore. *)
rowWouldClearLines(w, row) ==
  IF row = NO_ROW
  THEN [w |-> w, result |-> FALSE]
  ELSE
    LET snapshot == w
        suspended == [w EXCEPT !.hoveredBlock = NULL, !.selectedBlock = NULL,
                               !.fallingAnimation = NULL]
        shifted == moveBlocksUp(suspended)
        tried   == [shifted EXCEPT !.grid = WriteBottomRow(shifted.grid, row)]
        Restore(settled) ==
          [w |-> [settled.w EXCEPT
                    !.grid = snapshot.grid,
                    !.topLine = snapshot.topLine,
                    !.score = snapshot.score,
                    !.hoveredBlock = snapshot.hoveredBlock,
                    !.selectedBlock = snapshot.selectedBlock,
                    !.fallingAnimation = snapshot.fallingAnimation],
           result |-> settled.totalCleared > 0]
    IN  Restore(SettleNow(tried))

----------------------------------------------------------------------------
(* The animation slot.  `options` is [finalize, after], each NULL or a      *)
(* closure record.  animReplaced records a start over a pending animation.  *)
MaxDrop(moves) ==
  LET S == {moves[i].dropDistance : i \in 1..Len(moves)} \cup {0}
  IN  CHOOSE m \in S : \A d \in S : d <= m

(* An animation of the least duration, however far its blocks fall. *)
startFallAnimation_LeastDuration(w, moves, options) ==
  IF Len(moves) = 0
  THEN w
  ELSE [w EXCEPT
          !.animReplaced = w.animReplaced \/ (w.fallingAnimation # NULL),
          !.fallingAnimation =
             [moves     |-> moves,
              finalize  |-> options.finalize,
              after     |-> IF options.after # NULL THEN << options.after >> ELSE << >>,
              startTime |-> NO_TIME,
              duration  |-> MIN_FALL_DURATION]]

startFallAnimation(w, moves, options) ==
  IF Len(moves) = 0
  THEN w
  ELSE [w EXCEPT
          !.animReplaced = w.animReplaced \/ (w.fallingAnimation # NULL),
          !.fallingAnimation =
             [moves     |-> moves,
              finalize  |-> options.finalize,
              after     |-> IF options.after # NULL THEN << options.after >> ELSE << >>,
              startTime |-> NO_TIME,
              duration  |-> Max(MIN_FALL_DURATION,
                                MaxDrop(moves) * FALL_ANIMATION_PER_ROW)]]

----------------------------------------------------------------------------
VARIABLES
  grid, topLine, selectedBlock, hoveredBlock, score, nextRow, selectionMoved,
  fallingAnimation, blockCounter,   \* the globals of the script
  variant,        \* which of the two source files runs
  bootCount,      \* bootstrap spawns done so far (the loop variable i)
  now,            \* timestamp of the last frame, counted from the last idle frame
  spawnLog,       \* the candidates the last handler's spawn tried, the row it inserted,
                  \* and whether the board was settled and idle when it inserted
  placement,      \* the placement record the last handler's release produced
  spawnCleared,   \* rows cleared so far by settles that spawnBlocks requested
  animReplaced,   \* an animation was started over a pending one
  call            \* whether engine calls are logged, and those the last handler made:
                  \* log, the set of gravity and clearing calls and of frames that
                  \* found an animation; trace, its steps in order

vars == << grid, topLine, selectedBlock, hoveredBlock, score, nextRow, selectionMoved,
           fallingAnimation, blockCounter, variant, bootCount, now,
           spawnLog, placement, spawnCleared, animReplaced, call >>

World ==
  [grid |-> grid, topLine |-> topLine, selectedBlock |-> selectedBlock,
   hoveredBlock |-> hoveredBlock, score |-> score, nextRow |-> nextRow,
   selectionMoved |-> selectionMoved, fallingAnimation |-> fallingAnimation,
   blockCounter |-> blockCounter,
   spawnLog |-> spawnLog, placement |-> placement,
   spawnCleared |-> spawnCleared, animReplaced |-> animReplaced, call |-> call]

(* The globals of the script in w: w without the log of engine calls. *)
Prog(w) == [w EXCEPT !.call = [on |-> FALSE, log |-> {}, trace |-> << >>]]

----------------------------------------------------------------------------
(* settleBoard and spawnBlocks call each other through onComplete.  Since   *)
(* spawnBlocks draws random rows, both yield the set of possible outcomes.  *)
(* onComplete is NULL or [shouldSpawn], the closure finalizePlacement makes; *)
(* a continuation [onComplete] is () => settleBoard({animate: true, ...}).  *)
RECURSIVE settleBoard(_, _, _)
RECURSIVE spawnBlocks(_, _)

(* A spawn that inserts the held row without probing it. *)
RerollLoop_NeverProbes(w, attempts, tried) ==
  {[w |-> w, attempts |-> attempts,
    tried |-> Append(tried, [row |-> w.nextRow, wouldClear |-> FALSE, restored |-> TRUE])]}

(* while (rowWouldClearLines(nextRow) && attempts < 20) { reroll } *)
RECURSIVE RerollLoop(_, _, _)
RerollLoop(w, attempts, tried) ==
  LET While(probe) ==
        LET seen == Append(tried, [row |-> w.nextRow, wouldClear |-> probe.result,
                                   restored |-> Prog(probe.w) = Prog(w)])
        IN  IF probe.result /\ attempts < RETRY_BOUND
            THEN UNION { RerollLoop([probe.w EXCEPT !.nextRow = g.row,
                                                    !.blockCounter = g.blockCounter],
                                    attempts + 1, seen)
                         : g \in generateNextRow(probe.w.blockCounter) }
            ELSE {[w |-> probe.w, attempts |-> attempts, tried |-> seen]}
  IN  While(rowWouldClearLines(w, w.nextRow))

(* A spawn that inserts the row held at its start, whatever the loop found. *)
SpawnInsert_KeepsHeldRow(loop, animateSettle) ==
  LET chosen  == loop.tried[1].row
      shifted == moveBlocksUp([loop.w EXCEPT !.nextRow = chosen])
      written == [shifted EXCEPT
                    !.grid = WriteBottomRow(shifted.grid, chosen),
                    !.spawnLog = [tried |-> loop.tried, inserted |-> chosen,
                                  settled |-> loop.w.fallingAnimation = NULL
                                                /\ Stable(loop.w.grid)]]
  IN  UNION { { [r.w EXCEPT !.nextRow = g.row,
                            !.blockCounter = g.blockCounter,
                            !.spawnCleared = r.w.spawnCleared + r.ret]
                : g \in generateNextRow(r.w.blockCounter) }
              : r \in settleBoard(written, animateSettle, NULL) }

(* The rest of spawnBlocks, after the loop. *)
SpawnInsert(loop, animateSettle) ==
  LET chosen  == IF loop.attempts >= RETRY_BOUND THEN EmptyRow ELSE loop.w.nextRow
      shifted == moveBlocksUp([loop.w EXCEPT !.nextRow = chosen])
      written == [shifted EXCEPT
                    !.grid = WriteBottomRow(shifted.grid, chosen),
                    !.spawnLog = [tried |-> loop.tried, inserted |-> chosen,
                                  settled |-> loop.w.fallingAnimation = NULL
                                                /\ Stable(loop.w.grid)]]
  IN  UNION { { [r.w EXCEPT !.nextRow = g.row,
                            !.blockCounter = g.blockCounter,
                            !.spawnCleared = r.w.spawnCleared + r.ret]
                : g \in generateNextRow(r.w.blockCounter) }
              : r \in settleBoard(written, animateSettle, NULL) }

(* An onComplete that asks for a row whatever shouldSpawn says. *)
RunOnComplete_AlwaysSpawns(w, onComplete) ==
  IF onComplete = NULL
  THEN {w}
  ELSE spawnBlocks(w, TRUE)

RunOnComplete(w, onComplete) ==
  IF onComplete = NULL
  THEN {w}
  ELSE IF onComplete.shouldSpawn THEN spawnBlocks(w, TRUE) ELSE {w}

(* An animated settle that clears rows and leaves the score as it was. *)
AddCleared_LeavesScore(w, cleared, onComplete) ==
  [w EXCEPT !.spawnCleared = IF onComplete = NULL
                             THEN w.spawnCleared + cleared
                             ELSE w.spawnCleared]

(* score += cleared, in the animated settle *)
AddCleared(w, cleared, onComplete) ==
  [w EXCEPT !.score = w.score + cleared,
            !.spawnCleared = IF onComplete = NULL
                             THEN w.spawnCleared + cleared
                             ELSE w.spawnCleared]

settleBoard(w, animate, onComplete) ==
  IF ~animate
  THEN LET Return(r) ==
             {[w |-> w2, ret |-> r.totalCleared] : w2 \in RunOnComplete(r.w, onComplete)}
       IN  Return(SettleNow(w))
  ELSE IF w.fallingAnimation # NULL
  THEN {[w |-> [Traced(w, "queued", 0) EXCEPT !.fallingAnimation.after =
                           Append(@, [onComplete |-> onComplete])],
         ret |-> 0]}
  ELSE
    LET Clear(c) ==
          IF c.cleared > 0
          THEN settleBoard(AddCleared(c.w, c.cleared, onComplete), TRUE, onComplete)
          ELSE {[w |-> w2, ret |-> 0]
                : w2 \in RunOnComplete(Traced(c.w, "animated", 0), onComplete)}
        Gravity(gravityResult) ==
          IF Len(gravityResult.moves) > 0
          THEN {[w |-> startFallAnimation(
                         [gravityResult.w EXCEPT !.hoveredBlock = NULL],
                         gravityResult.moves,
                         [finalize |-> NULL, after |-> [onComplete |-> onComplete]]),
                 ret |-> 0]}
          ELSE Clear(clearFullLines(gravityResult.w))
    IN  Gravity(applyGravity(Traced(w, "animate", 0), TRUE))

spawnBlocks(w, animateSettle) ==
  LET starts == IF w.nextRow = NO_ROW
                THEN {[w EXCEPT !.nextRow = g.row, !.blockCounter = g.blockCounter]
                      : g \in generateNextRow(w.blockCounter)}
                ELSE {w}
  IN  UNION { UNION { SpawnInsert(loop, animateSettle) : loop \in RerollLoop(s, 0, << >>) }
              : s \in starts }

(* A placement that writes the block and neither settles nor spawns. *)
finalizePlacement_WritesOnly(w, cells, color, blockId, dropDistance, shouldSpawn) ==
  LET placed == Traced([w EXCEPT !.grid = WriteCells(w.grid, cells, dropDistance,
                                                     color, blockId)],
                       "placed", dropDistance)
  IN  { [placed EXCEPT !.selectionMoved = FALSE] }

finalizePlacement(w, cells, color, blockId, dropDistance, shouldSpawn) ==
  LET placed == Traced([w EXCEPT !.grid = WriteCells(w.grid, cells, dropDistance,
                                                     color, blockId)],
                       "placed", dropDistance)
  IN  { [r.w EXCEPT !.selectionMoved = FALSE]
        : r \in settleBoard(placed, TRUE, [shouldSpawn |-> shouldSpawn]) }

----------------------------------------------------------------------------
(* Pointer handlers.  An event is [button, x, y] in canvas pixels.          *)
(* A select that does not look at the pending animation. *)
trySelectBlock_DuringAnimation(w, evt) ==
  IF w.selectedBlock # NULL THEN w
  ELSE IF evt.button # 0 THEN w
  ELSE
    LET cellX == evt.x \div CELL_SIZE
        cellY == evt.y \div CELL_SIZE
    IN  IF cellX < 0 \/ cellX >= WIDTH \/ cellY < 0 \/ cellY >= HEIGHT THEN w
        ELSE
          LET startCell == w.grid[idx(cellX, cellY)]
          IN  IF isEmptyCell(startCell) THEN w
              ELSE
                LET cells == collectBlockCells(w.grid, cellX, cellY, startCell.blockId)
                IN  IF Len(cells) = 0 THEN w
                    ELSE [w EXCEPT
                            !.grid = WriteCells(w.grid, cells, 0, COLOR_BACKGROUND, NO_BLOCK),
                            !.selectedBlock =
                               [color |-> startCell.color,
                                blockId |-> startCell.blockId,
                                baseCells |-> cells,
                                cells |-> cells,
                                offset |-> 0,
                                pointerStartX |-> evt.x],
                            !.hoveredBlock = NULL,
                            !.selectionMoved = FALSE]

trySelectBlock(w, evt) ==
  IF w.selectedBlock # NULL \/ w.fallingAnimation # NULL THEN w
  ELSE IF evt.button # 0 THEN w
  ELSE
    LET cellX == evt.x \div CELL_SIZE
        cellY == evt.y \div CELL_SIZE
    IN  IF cellX < 0 \/ cellX >= WIDTH \/ cellY < 0 \/ cellY >= HEIGHT THEN w
        ELSE
          LET startCell == w.grid[idx(cellX, cellY)]
          IN  IF isEmptyCell(startCell) THEN w
              ELSE
                LET cells == collectBlockCells(w.grid, cellX, cellY, startCell.blockId)
                IN  IF Len(cells) = 0 THEN w
                    ELSE [w EXCEPT
                            !.grid = WriteCells(w.grid, cells, 0, COLOR_BACKGROUND, NO_BLOCK),
                            !.selectedBlock =
                               [color |-> startCell.color,
                                blockId |-> startCell.blockId,
                                baseCells |-> cells,
                                cells |-> cells,
                                offset |-> 0,
                                pointerStartX |-> evt.x],
                            !.hoveredBlock = NULL,
                            !.selectionMoved = FALSE]

(* A placement test that looks at the grid's edges only. *)
canPlaceOffset_IgnoresBlocks(g, baseCells, offset) ==
  \A i \in 1..Len(baseCells) :
    LET targetX == baseCells[i].x + offset
    IN  ~(targetX < 0 \/ targetX >= WIDTH)

canPlaceOffset(g, baseCells, offset) ==
  \A i \in 1..Len(baseCells) :
    LET targetX == baseCells[i].x + offset
    IN  /\ ~(targetX < 0 \/ targetX >= WIDTH)
        /\ isEmptyCell(g[idx(targetX, baseCells[i].y)])

(* A walk that jumps to the requested offset whenever that offset is free. *)
OffsetWalk_JumpsToTarget(g, baseCells, newOffset, offset, direction) ==
  IF canPlaceOffset(g, baseCells, offset) THEN offset ELSE newOffset

(* while (newOffset !== offset) { one step in `direction`, stop when blocked } *)
RECURSIVE OffsetWalk(_, _, _, _, _)
OffsetWalk(g, baseCells, newOffset, offset, direction) ==
  IF newOffset = offset THEN newOffset
  ELSE IF ~canPlaceOffset(g, baseCells, newOffset + direction) THEN newOffset
  ELSE OffsetWalk(g, baseCells, newOffset + direction, offset, direction)

(* A drag that moves the offset and leaves the cells where they were. *)
applyOffset_KeepsCells(w, offset) ==
  IF w.selectedBlock = NULL THEN w
  ELSE IF offset = w.selectedBlock.offset THEN w
  ELSE
    LET direction == IF offset > w.selectedBlock.offset THEN 1 ELSE -1
        newOffset == OffsetWalk(w.grid, w.selectedBlock.baseCells,
                                w.selectedBlock.offset, offset, direction)
    IN  IF newOffset = w.selectedBlock.offset THEN w
        ELSE [w EXCEPT
                !.selectedBlock.offset = newOffset,
                !.selectionMoved = (variant = "index")]

(* index.js keeps the flag selectionMoved; part_000 has no such variable. *)
applyOffset(w, offset) ==
  IF w.selectedBlock = NULL THEN w
  ELSE IF offset = w.selectedBlock.offset THEN w
  ELSE
    LET direction == IF offset > w.selectedBlock.offset THEN 1 ELSE -1
        newOffset == OffsetWalk(w.grid, w.selectedBlock.baseCells,
                                w.selectedBlock.offset, offset, direction)
    IN  IF newOffset = w.selectedBlock.offset THEN w
        ELSE [w EXCEPT
                !.selectedBlock.offset = newOffset,
                !.selectedBlock.cells =
                   [i \in 1..Len(w.selectedBlock.baseCells) |->
                      Pos(w.selectedBlock.baseCells[i].x + newOffset,
                          w.selectedBlock.baseCells[i].y)],
                !.selectionMoved = (variant = "index")]

(* Math.round(v / CELL_SIZE): the nearest integer, halves upwards. *)
RoundCells(v) == (2 * v + CELL_SIZE) \div (2 * CELL_SIZE)

handleDrag(w, evt) ==
  IF w.selectedBlock = NULL THEN w
  ELSE applyOffset(w, RoundCells(evt.x - w.selectedBlock.pointerStartX))

updateHoveredBlock(w, evt) ==
  IF w.fallingAnimation # NULL THEN [w EXCEPT !.hoveredBlock = NULL]
  ELSE
    LET cellX == evt.x \div CELL_SIZE
        cellY == evt.y \div CELL_SIZE
    IN  IF cellX < 0 \/ cellX >= WIDTH \/ cellY < 0 \/ cellY >= HEIGHT
        THEN [w EXCEPT !.hoveredBlock = NULL]
        ELSE
          LET cell == w.grid[idx(cellX, cellY)]
          IN  IF isEmptyCell(cell)
              THEN [w EXCEPT !.hoveredBlock = NULL]
              ELSE [w EXCEPT !.hoveredBlock =
                      [color |-> cell.color, blockId |-> cell.blockId,
                       cells |-> collectBlockCells(w.grid, cellX, cellY, cell.blockId)]]

clearHover(w) == [w EXCEPT !.hoveredBlock = NULL]

(* A release that asks for a row only after a move to the right. *)
dropSelectedBlock_RightwardOnly(w) ==
  IF w.selectedBlock = NULL
  THEN [w |-> w, placement |-> NULL]
  ELSE [w |-> [w EXCEPT !.selectedBlock = NULL],
        placement |->
          [cells |-> w.selectedBlock.cells,
           color |-> w.selectedBlock.color,
           blockId |-> w.selectedBlock.blockId,
           dropDistance |-> computeDropDistance(w.grid, w.selectedBlock.cells),
           shouldSpawn |-> w.selectedBlock.offset > 0]]

(* shouldSpawn: selectionMoved in index.js, offset !== 0 in part_000. *)
dropSelectedBlock(w) ==
  IF w.selectedBlock = NULL
  THEN [w |-> w, placement |-> NULL]
  ELSE [w |-> [w EXCEPT !.selectedBlock = NULL],
        placement |->
          [cells |-> w.selectedBlock.cells,
           color |-> w.selectedBlock.color,
           blockId |-> w.selectedBlock.blockId,
           dropDistance |-> computeDropDistance(w.grid, w.selectedBlock.cells),
           shouldSpawn |-> IF variant = "index"
                           THEN w.selectionMoved
                           ELSE w.selectedBlock.offset # 0]]

(* A release that writes a falling block into the grid at once. *)
mouseup_WritesAtRelease(w) ==
  IF w.selectedBlock = NULL THEN {w}
  ELSE
    LET d == dropSelectedBlock(w)
        p == d.placement
        released == [d.w EXCEPT !.placement = p]
    IN  IF p.dropDistance = 0
        THEN { clearHover(f)
               : f \in finalizePlacement(released, p.cells, p.color, p.blockId,
                                         p.dropDistance, p.shouldSpawn) }
        ELSE { clearHover(startFallAnimation(
                 [released EXCEPT !.grid = WriteCells(released.grid, p.cells, p.dropDistance,
                                                      p.color, p.blockId)],
                 << [cells |-> p.cells, color |-> p.color, blockId |-> p.blockId,
                     dropDistance |-> p.dropDistance] >>,
                 [finalize |-> p, after |-> NULL])) }

(* The mouseup listener. *)
mouseup(w) ==
  IF w.selectedBlock = NULL THEN {w}
  ELSE
    LET d == dropSelectedBlock(w)
        p == d.placement
        released == [d.w EXCEPT !.placement = p]
    IN  IF p.dropDistance = 0
        THEN { clearHover(f)
               : f \in finalizePlacement(released, p.cells, p.color, p.blockId,
                                         p.dropDistance, p.shouldSpawn) }
        ELSE { clearHover(startFallAnimation(
                 released,
                 << [cells |-> p.cells, color |-> p.color, blockId |-> p.blockId,
                     dropDistance |-> p.dropDistance] >>,
                 [finalize |-> p, after |-> NULL])) }

----------------------------------------------------------------------------
(* The animation part of render(timestamp); the rest of render draws.       *)
RECURSIVE RunCallbacks(_, _, _)
RunCallbacks(ws, callbacks, i) ==
  IF i > Len(callbacks)
  THEN ws
  ELSE RunCallbacks(
         UNION { {r.w : r \in settleBoard(Traced(w, "continuation", i), TRUE,
                                           callbacks[i].onComplete)} : w \in ws },
         callbacks, i + 1)

(* A completion that never runs the callbacks queued on the animation. *)
render_DropsCallbacks(w, timestamp) ==
  IF w.fallingAnimation = NULL THEN {w}
  ELSE
    LET anim == IF w.fallingAnimation.startTime = NO_TIME
                THEN [w.fallingAnimation EXCEPT !.startTime = timestamp]
                ELSE w.fallingAnimation
        elapsed == timestamp - anim.startTime
    IN  IF elapsed < anim.duration
        THEN {[w EXCEPT !.fallingAnimation = anim]}
        ELSE
          LET cleared == [w EXCEPT !.fallingAnimation = NULL]
          IN  IF anim.finalize # NULL
              THEN finalizePlacement(cleared, anim.finalize.cells, anim.finalize.color,
                                     anim.finalize.blockId, anim.finalize.dropDistance,
                                     anim.finalize.shouldSpawn)
              ELSE {cleared}

(* A completion that runs the finalize callback, then the queued callbacks, *)
(* and only then empties the animation slot.                                *)
render_ClearsSlotLast(w, timestamp) ==
  IF w.fallingAnimation = NULL THEN {w}
  ELSE
    LET anim == IF w.fallingAnimation.startTime = NO_TIME
                THEN [w.fallingAnimation EXCEPT !.startTime = timestamp]
                ELSE w.fallingAnimation
        elapsed == timestamp - anim.startTime
    IN  IF elapsed < anim.duration
        THEN {[w EXCEPT !.fallingAnimation = anim]}
        ELSE
          LET finalized ==
                IF anim.finalize # NULL
                THEN finalizePlacement(Traced(w, "finalize", 0),
                                       anim.finalize.cells, anim.finalize.color,
                                       anim.finalize.blockId, anim.finalize.dropDistance,
                                       anim.finalize.shouldSpawn)
                ELSE {w}
          IN  { Traced([f EXCEPT !.fallingAnimation = NULL], "complete", Len(anim.after))
                : f \in RunCallbacks(finalized, anim.after, 1) }

render(w, timestamp) ==
  IF w.fallingAnimation = NULL THEN {w}
  ELSE
    LET anim == IF w.fallingAnimation.startTime = NO_TIME
                THEN [w.fallingAnimation EXCEPT !.startTime = timestamp]
                ELSE w.fallingAnimation
        elapsed == timestamp - anim.startTime
        framed  == Logged(w, "render", FALSE, w.grid, w.grid, elapsed)
    IN  IF elapsed < anim.duration
        THEN {[framed EXCEPT !.fallingAnimation = anim]}
        ELSE
          LET cleared == Traced([framed EXCEPT !.fallingAnimation = NULL],
                                "complete", Len(anim.after))
              finalized ==
                IF anim.finalize # NULL
                THEN finalizePlacement(Traced(cleared, "finalize", 0),
                                       anim.finalize.cells, anim.finalize.color,
                                       anim.finalize.blockId, anim.finalize.dropDistance,
                                       anim.finalize.shouldSpawn)
                ELSE {cleared}
          IN  RunCallbacks(finalized, anim.after, 1)

----------------------------------------------------------------------------
(* The state machine.  Each action is one run of a handler, of a frame, or  *)
(* of one iteration of the bootstrap loop.                                  *)
InitGlobals ==
  /\ grid = EmptyGrid
  /\ topLine = -1
  /\ selectedBlock = NULL
  /\ hoveredBlock = NULL
  /\ score = 0
  /\ nextRow = NO_ROW
  /\ selectionMoved = FALSE
  /\ fallingAnimation = NULL
  /\ blockCounter = 0
  /\ variant \in {"index", "part_000"}
  /\ bootCount = 0
  /\ now = 0
  /\ spawnLog = NULL
  /\ placement = NULL
  /\ spawnCleared = 0
  /\ animReplaced = FALSE

Init == InitGlobals /\ call = [on |-> FALSE, log |-> {}, trace |-> << >>]

(* The world a handler starts from: the per-handler records are blank. *)
Entry == [World EXCEPT !.spawnLog = NULL, !.placement = NULL, !.call.log = {},
                        !.call.trace = << >>]

Becomes(w) ==
  /\ grid' = w.grid
  /\ topLine' = w.topLine
  /\ selectedBlock' = w.selectedBlock
  /\ hoveredBlock' = w.hoveredBlock
  /\ score' = w.score
  /\ nextRow' = w.nextRow
  /\ selectionMoved' = w.selectionMoved
  /\ fallingAnimation' = w.fallingAnimation
  /\ blockCounter' = w.blockCounter
  /\ spawnLog' = w.spawnLog
  /\ placement' = w.placement
  /\ spawnCleared' = w.spawnCleared
  /\ animReplaced' = w.animReplaced
  /\ call' = w.call

(* Pointer positions: the centre of a column or row; the canvas holds the   *)
(* columns 0..WIDTH-1 and the rows 0..HEIGHT (row HEIGHT is the preview).   *)
Centre(c) == c * CELL_SIZE + CELL_SIZE \div 2
CanvasXs == {Centre(c) : c \in 0..(WIDTH - 1)}
CanvasYs == {Centre(r) : r \in 0..HEIGHT}
WindowXs == {Centre(c) : c \in -1..WIDTH}

Running == bootCount = BOOT_SPAWNS

(* for (let i = 0; i < 5; i++) spawnBlocks({ animateSettle: false }) *)
Bootstrap ==
  /\ bootCount < BOOT_SPAWNS
  /\ \E w \in spawnBlocks(Entry, FALSE) : Becomes(w)
  /\ bootCount' = bootCount + 1
  /\ UNCHANGED << variant, now >>

(* A press of the primary button anywhere on the canvas, or of another    *)
(* button (where it lands makes no difference to trySelectBlock).          *)
MouseDownEvents ==
  {[button |-> 0, x |-> x, y |-> y] : x \in CanvasXs, y \in CanvasYs}
    \cup {[button |-> 2, x |-> Centre(0), y |-> Centre(0)]}

MouseDown ==
  /\ Running
  /\ topLine < MaxTopLine
  /\ \E evt \in MouseDownEvents : Becomes(trySelectBlock(Entry, evt))
  /\ UNCHANGED << variant, bootCount, now >>

(* A move over the canvas runs the canvas listener, then the window one. *)
MouseMoveOnCanvas ==
  /\ Running
  /\ \E x \in CanvasXs, y \in CanvasYs :
       LET evt == [button |-> 0, x |-> x, y |-> y]
       IN  Becomes(handleDrag(updateHoveredBlock(Entry, evt), evt))
  /\ UNCHANGED << variant, bootCount, now >>

MouseMoveOffCanvas ==
  /\ Running
  /\ \E x \in WindowXs :
       Becomes(handleDrag(Entry, [button |-> 0, x |-> x, y |-> Centre(-1)]))
  /\ UNCHANGED << variant, bootCount, now >>

MouseLeave ==
  /\ Running
  /\ Becomes(clearHover(Entry))
  /\ UNCHANGED << variant, bootCount, now >>

MouseUp ==
  /\ Running
  /\ \E w \in mouseup(Entry) : Becomes(w)
  /\ UNCHANGED << variant, bootCount, now >>

(* A frame while an animation is pending; a frame without one changes     *)
(* nothing.  Only timestamp - startTime is ever read, so timestamps are     *)
(* counted from the frame that completed the previous animation.            *)
Tick ==
  /\ Running
  /\ fallingAnimation # NULL
  /\ \E k \in 1..MaxTickGap :
       LET timestamp == now + k * TickUnit
       IN  \E w \in render(Entry, timestamp) :
             /\ Becomes(w)
             /\ now' = IF w.fallingAnimation # NULL
                          /\ w.fallingAnimation.startTime # NO_TIME
                       THEN timestamp ELSE 0
  /\ UNCHANGED << variant, bootCount >>

Next ==
  \/ Bootstrap
  \/ MouseDown
  \/ MouseMoveOnCanvas
  \/ MouseMoveOffCanvas
  \/ MouseLeave
  \/ MouseUp
  \/ Tick

Spec == Init /\ [][Next]_vars

(* render ends with requestAnimationFrame(render): frames keep arriving.    *)
(* This is weak fairness of Tick, WF_vars(Tick), written out with the guard *)
(* of Tick, FrameDue, in the place of ENABLED <<Tick>>_vars.                *)
FrameDue == Running /\ fallingAnimation # NULL

LiveSpec == Spec /\ ([]<>(~FrameDue) \/ []<><<Tick>>_vars)

(* The same program with every applyGravity and clearFullLines call logged. *)
EngineInit == InitGlobals /\ call = [on |-> TRUE, log |-> {}, trace |-> << >>]

EngineSpec == EngineInit /\ [][Next]_vars

(* The row generator alone: nextRow = generateNextRow(), again and again,   *)
(* for rows of GenWidth cells with at most GenMaxSpawn filled.              *)
GenInit == Init

Generate ==
  /\ blockCounter + GenMaxSpawn <= GenMaxId
  /\ \E g \in GenerateRow(GenWidth, GenMaxSpawn, GenMaxId, 0, 0, blockCounter,
                           [x \in 0..(GenWidth - 1) |-> makeCell(COLOR_BACKGROUND, NO_BLOCK)]) :
       /\ nextRow' = g.row
       /\ blockCounter' = g.blockCounter
  /\ UNCHANGED << grid, topLine, selectedBlock, hoveredBlock, score, selectionMoved,
                  fallingAnimation, variant, bootCount, now, spawnLog, placement,
                  spawnCleared, animReplaced, call >>

GenNext == Generate

GenSpec == GenInit /\ [][GenNext]_vars

(* collectBlockCells alone: the canvas mousemove listener, which stores the *)
(* fill from the cell under the pointer, on grids of every arrangement of   *)
(* the ids 1..FloodIds.                                                     *)
FloodInit ==
  /\ grid \in [0..(WIDTH * HEIGHT - 1) ->
                 {makeCell(COLOR_BACKGROUND, NO_BLOCK)}
                   \cup {makeCell(PALETTE[1], id) : id \in 1..FloodIds}]
  /\ topLine = -1
  /\ selectedBlock = NULL
  /\ hoveredBlock = NULL
  /\ score = 0
  /\ nextRow = NO_ROW
  /\ selectionMoved = FALSE
  /\ fallingAnimation = NULL
  /\ blockCounter = FloodIds
  /\ variant \in {"index", "part_000"}
  /\ bootCount = 0
  /\ now = 0
  /\ spawnLog = NULL
  /\ placement = NULL
  /\ spawnCleared = 0
  /\ animReplaced = FALSE
  /\ call = [on |-> FALSE, log |-> {}, trace |-> << >>]

FloodHover ==
  /\ \E x \in CanvasXs, y \in CanvasYs :
       Becomes(updateHoveredBlock(Entry, [button |-> 0, x |-> x, y |-> y]))
  /\ UNCHANGED << variant, bootCount, now >>

FloodNext == FloodHover

FloodSpec == FloodInit /\ [][FloodNext]_vars

(* computeDropDistance on blocks of any shape over any obstacles: press,    *)
(* drag and release on the grids of FloodInit.                              *)
DropPress ==
  /\ topLine < DropTopLine
  /\ \E evt \in MouseDownEvents : Becomes(trySelectBlock(Entry, evt))
  /\ UNCHANGED << variant, bootCount, now >>

DropDrag ==
  /\ \E x \in WindowXs :
       Becomes(handleDrag(Entry, [button |-> 0, x |-> x, y |-> Centre(-1)]))
  /\ UNCHANGED << variant, bootCount, now >>

DropRelease ==
  /\ \E w \in mouseup(Entry) : Becomes(w)
  /\ UNCHANGED << variant, bootCount, now >>

DropNext == DropPress \/ DropDrag \/ DropRelease

DropSpec == FloodInit /\ [][DropNext]_vars

(* The program with its calls logged and the trace kept from frame to       *)
(* frame, so that the trace of a settle spans the frames that carry it out; *)
(* the pointer acts between animations only, where it starts a new trace.   *)
Kept == [World EXCEPT !.spawnLog = NULL, !.placement = NULL, !.call.log = {}]

SettleTick ==
  /\ Running
  /\ fallingAnimation # NULL
  /\ \E k \in 1..MaxTickGap :
       LET timestamp == now + k * TickUnit
       IN  \E w \in render(Kept, timestamp) :
             /\ Becomes(w)
             /\ now' = IF w.fallingAnimation # NULL
                          /\ w.fallingAnimation.startTime # NO_TIME
                       THEN timestamp ELSE 0
  /\ UNCHANGED << variant, bootCount >>

SettleBoot == Bootstrap

SettlePress == fallingAnimation = NULL /\ MouseDown

SettleDrag == fallingAnimation = NULL /\ MouseMoveOffCanvas

SettleRelease == fallingAnimation = NULL /\ MouseUp

SettleNext == SettleBoot \/ SettlePress \/ SettleDrag \/ SettleRelease \/ SettleTick

SettleSpec == EngineInit /\ [][SettleNext]_vars

----------------------------------------------------------------------------
(* Board predicates used by the properties. *)
(* The rows a spawn could probe in the current state. *)
ProbeRows ==
  {g.row : g \in generateNextRow(blockCounter)}
    \cup (IF nextRow = NO_ROW THEN {} ELSE {nextRow})

----------------------------------------------------------------------------
(* C1: the probe rowWouldClearLines leaves grid, score, topLine, selection, *)
(* pending animation, hovered block, next-row buffer and block-id counter   *)
(* as they were: for every row it could be given in any reachable state,    *)
(* and in every call the last spawn made.                                   *)
C1_ProbeRestoresState ==
  /\ \A row \in ProbeRows : Prog(rowWouldClearLines(World, row).w) = Prog(World)
  /\ Prog(rowWouldClearLines(World, NO_ROW).w) = Prog(World)
  /\ spawnLog # NULL =>
       \A i \in 1..Len(spawnLog.tried) : spawnLog.tried[i].restored

(* An idle board, after a spawn during play, with a block hovered, on which *)
(* the trial settle of some candidate row clears a line.                    *)
C1_Witness ==
  /\ hoveredBlock # NULL
  /\ selectedBlock = NULL
  /\ fallingAnimation = NULL
  /\ topLine >= BOOT_SPAWNS
  /\ \E row \in ProbeRows : rowWouldClearLines(World, row).result

(* C2 as stated: the inserted row is the first candidate tried (the held    *)
(* row, then the rerolls in order) that the probe accepts, and the          *)
(* all-empty fallback is inserted only when the probe accepts none.         *)
C2_FirstAcceptedCandidateInserted ==
  spawnLog # NULL =>
    LET accepted == {i \in 1..Len(spawnLog.tried) : ~spawnLog.tried[i].wouldClear}
    IN  IF accepted = {}
        THEN spawnLog.inserted = EmptyRow
        ELSE spawnLog.inserted =
               spawnLog.tried[CHOOSE i \in accepted : \A j \in accepted : i <= j].row

(* C3 as stated: a spawn inserts the row held in the buffer before it began. *)
C3_HeldRowInserted ==
  spawnLog # NULL => spawnLog.inserted = spawnLog.tried[1].row

(* C3 amended: a spawn inserts the held row exactly when the probe reports  *)
(* that the held row would not clear a line.                                *)
C3_HeldRowInsertedIffAccepted ==
  spawnLog # NULL =>
    (spawnLog.inserted = spawnLog.tried[1].row <=> ~spawnLog.tried[1].wouldClear)

(* A spawn during play that kept its held, non-empty row. *)
C3_Witness ==
  /\ spawnLog # NULL
  /\ Running /\ placement # NULL
  /\ spawnLog.inserted = spawnLog.tried[1].row
  /\ spawnLog.inserted # EmptyRow

(* C4: no settle requested by a spawn clears a row, so a spawn leaves the   *)
(* score as it was, and the score is 0 through the bootstrap spawns.        *)
C4_SpawnClearsNothing ==
  /\ [](spawnCleared = 0)
  /\ [][bootCount' # bootCount => score' = 0]_vars

(* A spawn during play whose held row the probe rejected. *)
C4_Witness ==
  /\ spawnLog # NULL
  /\ topLine >= BOOT_SPAWNS
  /\ spawnLog.tried[1].wouldClear

(* C5 as stated: in both variants a release yields shouldSpawn = TRUE       *)
(* exactly when the offset at release differs from zero.                    *)
C5_SpawnIffOffsetNonZero ==
  [][(selectedBlock # NULL /\ selectedBlock' = NULL) =>
       (placement'.shouldSpawn <=> selectedBlock.offset # 0)]_vars

(* C5 amended: in part_000 shouldSpawn is TRUE exactly when the offset at   *)
(* release differs from zero; in index.js it is TRUE whenever that offset   *)
(* differs from zero (and also at offset zero after a drag away and back).  *)
C5_SpawnWhenOffsetNonZero ==
  [][(selectedBlock # NULL /\ selectedBlock' = NULL) =>
       IF variant = "part_000"
       THEN placement'.shouldSpawn <=> selectedBlock.offset # 0
       ELSE selectedBlock.offset # 0 => placement'.shouldSpawn]_vars

(* A release at a non-zero offset has asked for a row, in part_000. *)
C5_Witness ==
  /\ placement # NULL
  /\ placement.shouldSpawn
  /\ variant = "part_000"

(* C6: no animation is ever started while another one is pending. *)
C6_NoAnimationReplaced == ~animReplaced

(* An animation started by settleBoard is pending after a release's own     *)
(* animation has completed and finalized.                                   *)
C6_Witness ==
  /\ fallingAnimation # NULL
  /\ fallingAnimation.finalize = NULL
  /\ fallingAnimation.startTime = NO_TIME
  /\ topLine < BOOT_SPAWNS
  /\ Running

(* C7: a frame can always run while an animation is pending; a handler that *)
(* requests a settle (a release's placement, a spawn) ends with an          *)
(* animation pending or with the board stable; and while frames keep        *)
(* arriving a pending animation leads to a state with no animation in which *)
(* no block can fall and no row is full.                                    *)
C7_SettleReachesStableIdle ==
  /\ [](FrameDue => \A k \in 1..MaxTickGap : render(Entry, now + k * TickUnit) # {})
  /\ [][(placement' # NULL \/ spawnLog' # NULL) =>
         (fallingAnimation' # NULL \/ Stable(grid'))]_vars
  /\ (fallingAnimation # NULL) ~> (fallingAnimation = NULL /\ Stable(grid))

(* An animation started by the settle loop is pending over a grid that      *)
(* holds a full row: a clear, and another round of gravity, are still due.  *)
C7_Witness ==
  /\ fallingAnimation # NULL
  /\ fallingAnimation.finalize = NULL
  /\ \E y \in 0..(HEIGHT - 1) : RowIsFull(grid, y)

----------------------------------------------------------------------------
(* The logged calls of the last handler. *)
GravityCalls == {c \in call.log : c.op = "applyGravity" /\ ~c.gated}

ClearCalls == {c \in call.log : c.op = "clearFullLines"}

Occupied(g) == {i \in DOMAIN g : g[i].color # COLOR_BACKGROUND}

FallOf(c, id) ==
  {d \in 0..(HEIGHT - 1) :
     CellsOf(c.after, id) = {Pos(p.x, p.y + d) : p \in CellsOf(c.before, id)}}

(* C8: an ungated applyGravity keeps every block: the same ids are on the   *)
(* grid after the call, each with the colour, the columns and the number of *)
(* cells it had, moved down by one distance >= 0, inside the grid, and no   *)
(* cell is overwritten or lost.                                             *)
C8_GravityTranslatesBlocksDown ==
  \A c \in GravityCalls :
    /\ BlockIds(c.after) = BlockIds(c.before)
    /\ Cardinality(Occupied(c.after)) = Cardinality(Occupied(c.before))
    /\ \A i \in Occupied(c.after) : c.after[i].blockId # NO_BLOCK
    /\ \A id \in BlockIds(c.before) :
         /\ FallOf(c, id) # {}
         /\ \A p \in CellsOf(c.before, id), q \in CellsOf(c.after, id) :
              c.after[idx(q.x, q.y)].color = c.before[idx(p.x, p.y)].color

(* One call made a block fall onto another block while a third stayed. *)
C8_Witness ==
  \E c \in GravityCalls :
    \E a, b \in BlockIds(c.before) :
      /\ a # b
      /\ 0 \notin FallOf(c, a)
      /\ 0 \in FallOf(c, b)
      /\ \E p \in CellsOf(c.after, a) :
           p.y < HEIGHT - 1 /\ c.after[idx(p.x, p.y + 1)].blockId = b

(* C9: right after an ungated applyGravity every block rests, and a second  *)
(* applyGravity on the result reports moved = false, records no move and    *)
(* leaves the grid as it is.                                                *)
C9_GravityReachesFixedPoint ==
  \A c \in GravityCalls :
    /\ \A id \in BlockIds(c.after) : Rests(c.after, id)
    /\ LET again == GravityLoop(c.after, << >>, FALSE, TRUE)
       IN  ~again.moved /\ again.grid = c.after /\ again.moves = << >>

(* One call made two blocks fall. *)
C9_Witness ==
  \E c \in GravityCalls :
    \E a, b \in BlockIds(c.before) :
      a # b /\ 0 \notin FallOf(c, a) /\ 0 \notin FallOf(c, b)

(* C10: clearFullLines empties exactly the rows whose WIDTH cells are all   *)
(* non-empty at the call, leaves every other row cell for cell as it was,   *)
(* and returns the number of rows it emptied.                               *)
C10_ClearsExactlyFullRows ==
  \A c \in ClearCalls :
    LET full == {y \in 0..(HEIGHT - 1) :
                  \A x \in 0..(WIDTH - 1) : c.before[idx(x, y)].color # COLOR_BACKGROUND}
    IN  /\ \A y \in 0..(HEIGHT - 1), x \in 0..(WIDTH - 1) :
             c.after[idx(x, y)] = IF y \in full
                                  THEN makeCell(COLOR_BACKGROUND, NO_BLOCK)
                                  ELSE c.before[idx(x, y)]
        /\ c.ret = Cardinality(full)

(* One call emptied a full row below a row that holds a block and stays. *)
C10_Witness ==
  \E c \in ClearCalls :
    /\ c.ret >= 1
    /\ \E y \in 0..(HEIGHT - 2) :
         /\ \E x \in 0..(WIDTH - 1) : c.after[idx(x, y)].color # COLOR_BACKGROUND
         /\ \A x \in 0..(WIDTH - 1) : c.after[idx(x, y + 1)].color = COLOR_BACKGROUND
         /\ \E x \in 0..(WIDTH - 1) : c.before[idx(x, y + 1)].color # COLOR_BACKGROUND

(* The retry bound was reached and the last reroll, which the probe         *)
(* accepted and which holds a block, was replaced by the all-empty row.     *)
C2_Witness ==
  /\ spawnLog # NULL
  /\ Len(spawnLog.tried) = RETRY_BOUND + 1
  /\ ~spawnLog.tried[RETRY_BOUND + 1].wouldClear
  /\ spawnLog.tried[RETRY_BOUND + 1].row # EmptyRow
  /\ spawnLog.inserted = EmptyRow

----------------------------------------------------------------------------
(* The steps of the last handler, by name. *)
Steps(ev) == {i \in 1..Len(call.trace) : call.trace[i].ev = ev}

(* C11: every settleBoard({animate: false}) call runs to its return with    *)
(* nothing in between but its own gravity and clearing passes, returns the  *)
(* number of rows that were emptied (WIDTH cells leave the grid per row),   *)
(* leaves the score higher by exactly the returned number, and has no       *)
(* animation pending at its return.                                         *)
C11_SyncSettleAddsItsReturnToScore ==
  \A i \in Steps("settled") :
    /\ i > 1
    /\ call.trace[i - 1].ev = "settle"
    /\ call.trace[i].score = call.trace[i - 1].score + call.trace[i].n
    /\ WIDTH * call.trace[i].n =
         Cardinality(Occupied(call.trace[i - 1].grid)) - Cardinality(Occupied(call.trace[i].grid))
    /\ ~call.trace[i - 1].anim
    /\ ~call.trace[i].anim

(* A synchronous settle cleared a row and left a block on the board. *)
C11_Witness ==
  \E i \in Steps("settled") :
    /\ call.trace[i].n >= 1
    /\ Occupied(call.trace[i].grid) # {}

----------------------------------------------------------------------------
(* C12: while a block is selected, its cells are its base cells shifted by  *)
(* the current offset, each in a column of the grid and on an empty grid    *)
(* cell, whatever pointer positions the drags were given.                   *)
C12_SelectionOnEmptyCellsInsideGrid ==
  selectedBlock # NULL =>
    /\ Len(selectedBlock.cells) = Len(selectedBlock.baseCells)
    /\ \A i \in 1..Len(selectedBlock.cells) :
         /\ selectedBlock.cells[i] = Pos(selectedBlock.baseCells[i].x + selectedBlock.offset,
                                         selectedBlock.baseCells[i].y)
         /\ selectedBlock.cells[i].x >= 0
         /\ selectedBlock.cells[i].x < WIDTH
         /\ grid[idx(selectedBlock.cells[i].x, selectedBlock.cells[i].y)].color = COLOR_BACKGROUND
         /\ grid[idx(selectedBlock.cells[i].x, selectedBlock.cells[i].y)].blockId = NO_BLOCK

(* A dragged selection stands away from its base, next to a block of its    *)
(* own row.                                                                  *)
C12_Witness ==
  /\ selectedBlock # NULL
  /\ selectedBlock.offset # 0
  /\ \E i \in 1..Len(selectedBlock.cells) :
       \E x \in {selectedBlock.cells[i].x - 1, selectedBlock.cells[i].x + 1} :
         /\ x \in 0..(WIDTH - 1)
         /\ grid[idx(x, selectedBlock.cells[i].y)].color # COLOR_BACKGROUND

----------------------------------------------------------------------------
(* The offsets between a and b, both included, whichever is larger. *)
Between(a, b) == IF a <= b THEN a..b ELSE b..a

Distance(a, b) == IF a <= b THEN b - a ELSE a - b

(* The selection fits at offset o: inside the grid and on empty cells. *)
Placeable(o) ==
  \A i \in 1..Len(selectedBlock.baseCells) :
    /\ selectedBlock.baseCells[i].x + o \in 0..(WIDTH - 1)
    /\ grid[idx(selectedBlock.baseCells[i].x + o, selectedBlock.baseCells[i].y)].color
         = COLOR_BACKGROUND

(* The offsets toward d that can be walked to from the current one through  *)
(* placeable offsets only.                                                  *)
WalkableToward(d) ==
  {o \in Between(selectedBlock.offset, d) :
     \A k \in Between(selectedBlock.offset, o) \ {selectedBlock.offset} : Placeable(k)}

DragTo(x) == handleDrag(World, [button |-> 0, x |-> x, y |-> Centre(0)])

(* C13: a drag to a pointer position d columns from where the press was     *)
(* leaves the selection at the offset closest to d among those that can be  *)
(* walked to from the current offset toward d through placeable offsets:    *)
(* it stops at the first blocked step, and is d when no step is blocked.    *)
C13_DragStopsAtFirstBlockedStep ==
  selectedBlock # NULL =>
    \A x \in WindowXs :
      LET d == RoundCells(x - selectedBlock.pointerStartX)
          r == DragTo(x).selectedBlock.offset
      IN  /\ d * CELL_SIZE = x - selectedBlock.pointerStartX
          /\ r \in WalkableToward(d)
          /\ \A o \in WalkableToward(d) : Distance(r, d) <= Distance(o, d)
          /\ (\A k \in Between(selectedBlock.offset, d) \ {selectedBlock.offset} : Placeable(k))
               => r = d

(* A drag asks for two columns to the right, where a block of the grid      *)
(* stands, and the selection moves one column.                              *)
C13_Witness ==
  /\ selectedBlock # NULL
  /\ \E x \in WindowXs :
       /\ RoundCells(x - selectedBlock.pointerStartX) = selectedBlock.offset + 2
       /\ DragTo(x).selectedBlock.offset = selectedBlock.offset + 1
       /\ \A i \in 1..Len(selectedBlock.baseCells) :
            selectedBlock.baseCells[i].x + selectedBlock.offset + 2 < WIDTH

----------------------------------------------------------------------------
(* The animation of a released block is pending: its finalize is not run. *)
FallPending == fallingAnimation # NULL /\ fallingAnimation.finalize # NULL

(* The grid with the block of placement p written dropDistance rows below   *)
(* the cells it was released at.                                            *)
Landed(g, p) ==
  [i \in DOMAIN g |->
     IF \E k \in 1..Len(p.cells) : i = (p.cells[k].y + p.dropDistance) * WIDTH + p.cells[k].x
     THEN [color |-> p.color, blockId |-> p.blockId]
     ELSE g[i]]

(* C14: a release that computes dropDistance > 0 changes no grid cell, nor  *)
(* the score, nor the row-shift count, and leaves its placement pending as  *)
(* the animation's finalize; while that finalize is pending no handler and  *)
(* no frame changes any of the three; and the frame that completes the      *)
(* animation runs the finalize on the grid, score and count of the release, *)
(* which writes the block's cells at their row plus dropDistance, onto      *)
(* cells that were empty, and nothing else.                                 *)
C14_FallingBlockWrittenOnlyByFinalize ==
  /\ [][(selectedBlock # NULL /\ placement' # NULL /\ placement'.dropDistance > 0) =>
          /\ grid' = grid /\ score' = score /\ topLine' = topLine
          /\ FallPending'
          /\ fallingAnimation'.finalize = placement']_vars
  /\ [][(FallPending /\ (Steps("complete"))' = {}) =>
          /\ grid' = grid /\ score' = score /\ topLine' = topLine
          /\ FallPending'
          /\ fallingAnimation'.finalize = fallingAnimation.finalize]_vars
  /\ [][(FallPending /\ (Steps("complete"))' # {}) =>
          /\ (Steps("placed"))' = {3}
          /\ \A i \in 1..2 : /\ call'.trace[i].grid = grid
                             /\ call'.trace[i].score = score
                             /\ call'.trace[i].topLine = topLine
          /\ call'.trace[3].grid = Landed(grid, fallingAnimation.finalize)
          /\ call'.trace[3].grid # grid
          /\ Cardinality(Occupied(call'.trace[3].grid))
               = Cardinality(Occupied(grid)) + Len(fallingAnimation.finalize.cells)
          /\ call'.trace[3].score = score
          /\ call'.trace[3].topLine = topLine]_vars

(* A frame completed the fall of a released block: the finalize wrote it    *)
(* one or more rows below where it was released.                            *)
C14_Witness ==
  /\ Steps("complete") = {1}
  /\ \E i \in Steps("placed") : call.trace[i].n > 0

----------------------------------------------------------------------------
(* The steps named ev of a trace t. *)
StepsOf(t, ev) == {i \in 1..Len(t) : t[i].ev = ev}

(* The trace t of a frame that completed animation a keeps the order: the   *)
(* slot is emptied first, then the finalize of a, if it has one, runs and   *)
(* places its block, then each callback queued on a runs, in the order of   *)
(* the queue.                                                               *)
OrderKept(t, a) ==
  /\ StepsOf(t, "complete") = {1}
  /\ ~t[1].anim
  /\ t[1].n = Len(a.after)
  /\ StepsOf(t, "finalize") = IF a.finalize # NULL THEN {2} ELSE {}
  /\ StepsOf(t, "placed") = IF a.finalize # NULL THEN {3} ELSE {}
  /\ {t[i].n : i \in StepsOf(t, "continuation")} = 1..Len(a.after)
  /\ \A i, j \in StepsOf(t, "continuation") : i < j <=> t[i].n < t[j].n
  /\ \A i \in StepsOf(t, "continuation") :
       \A f \in StepsOf(t, "finalize") \cup StepsOf(t, "placed") : f < i

(* The animation with one more continuation queued on it, as settleBoard    *)
(* leaves it when it is called while an animation is pending.               *)
QueuedBehind ==
  {[q.w EXCEPT !.call.trace = << >>]
   : q \in settleBoard(Entry, TRUE, [shouldSpawn |-> FALSE])}

(* C15: a frame completes the pending animation as soon as its time is up;  *)
(* the completing frame empties the animation slot before anything else,    *)
(* then runs the finalize callback if the animation has one, then runs the  *)
(* queued continuations in the order they were appended, none before the    *)
(* finalize; a frame that does not complete runs none of them.  The same    *)
(* order holds for render applied to a released block's animation with a    *)
(* continuation queued behind its finalize.                                 *)
C15_CompletionOrder ==
  /\ []((fallingAnimation # NULL /\ fallingAnimation.startTime # NO_TIME) =>
          now - fallingAnimation.startTime < fallingAnimation.duration)
  /\ [][(fallingAnimation # NULL /\ (Steps("complete"))' # {}) =>
          OrderKept(call'.trace, fallingAnimation)]_vars
  /\ [][(Steps("complete"))' = {} =>
          (Steps("finalize"))' = {} /\ (Steps("continuation"))' = {}]_vars
  /\ [](FallPending =>
          \A q \in QueuedBehind : \A k \in 1..MaxTickGap :
            \A f \in render(q, now + k * TickUnit) :
              f.call.trace = << >> \/ OrderKept(f.call.trace, q.fallingAnimation))

(* A frame completed an animation that gravity had started, and ran the     *)
(* continuation queued on it.                                               *)
C15_Witness ==
  /\ Steps("complete") = {1}
  /\ Steps("finalize") = {}
  /\ Steps("continuation") = {2}

----------------------------------------------------------------------------
(* World w holds the grid, score, selection, pending animation, next-row    *)
(* buffer, row-shift count and block-id counter of the current state.       *)
Untouched(w) ==
  /\ w.grid = grid
  /\ w.score = score
  /\ w.selectedBlock = selectedBlock
  /\ w.fallingAnimation = fallingAnimation
  /\ w.nextRow = nextRow
  /\ w.topLine = topLine
  /\ w.blockCounter = blockCounter

(* The press lands outside the grid or on an empty cell of it. *)
OnNothing(evt) ==
  \/ evt.x \div CELL_SIZE \notin 0..(WIDTH - 1)
  \/ evt.y \div CELL_SIZE \notin 0..(HEIGHT - 1)
  \/ grid[(evt.y \div CELL_SIZE) * WIDTH + evt.x \div CELL_SIZE].color = COLOR_BACKGROUND

(* C16: in every reachable state, a press while a block is selected or an   *)
(* animation is pending, a press of a button other than the primary one, a  *)
(* press outside the grid or on an empty cell, a drag with no selection (on *)
(* or off the canvas) and a release with no selection each return normally  *)
(* and leave grid, score, selection, pending animation, next-row buffer,    *)
(* row-shift count and block-id counter as they were.                       *)
C16_IllegalRequestsChangeNothing ==
  /\ \A evt \in MouseDownEvents :
       (\/ selectedBlock # NULL
        \/ fallingAnimation # NULL
        \/ evt.button # 0
        \/ OnNothing(evt)) => Untouched(trySelectBlock(World, evt))
  /\ selectedBlock = NULL =>
       /\ \A x \in WindowXs :
            Untouched(handleDrag(World, [button |-> 0, x |-> x, y |-> Centre(-1)]))
       /\ \A x \in CanvasXs, y \in CanvasYs :
            LET evt == [button |-> 0, x |-> x, y |-> y]
            IN  Untouched(handleDrag(updateHoveredBlock(World, evt), evt))
       /\ \A w \in mouseup(World) : Untouched(w)
       /\ mouseup(World) # {}

(* An animation is pending and a block of the grid is under the pointer of  *)
(* a primary-button press, which the pending animation alone turns away.    *)
C16_Witness ==
  /\ fallingAnimation # NULL
  /\ selectedBlock = NULL
  /\ \E evt \in MouseDownEvents : evt.button = 0 /\ ~OnNothing(evt)

----------------------------------------------------------------------------
(* The row insertions the pending animation still owes: one when its        *)
(* finalize, or a continuation queued on it, carries shouldSpawn = true.    *)
Owed ==
  IF fallingAnimation = NULL THEN 0
  ELSE (IF fallingAnimation.finalize # NULL /\ fallingAnimation.finalize.shouldSpawn
        THEN 1 ELSE 0)
       + Cardinality({i \in 1..Len(fallingAnimation.after) :
                        /\ fallingAnimation.after[i].onComplete # NULL
                        /\ fallingAnimation.after[i].onComplete.shouldSpawn})

(* C17: once the game runs, the row-shift count grows by one per step at    *)
(* most; a release with shouldSpawn = true adds one insertion to what is    *)
(* done or owed, a release with shouldSpawn = false and every other step    *)
(* add none; an owed insertion is eventually made; and every insertion is   *)
(* made on a board where every block rests, no row is full and no           *)
(* animation is pending.                                                    *)
C17_OneInsertionPerSpawningRelease ==
  /\ [][Running =>
          /\ topLine' \in {topLine, topLine + 1}
          /\ Owed' \in {0, 1}
          /\ topLine' + Owed' =
               topLine + Owed + (IF selectedBlock # NULL /\ placement' # NULL
                                    /\ placement'.shouldSpawn
                                 THEN 1 ELSE 0)]_vars
  /\ [][topLine' # topLine => (spawnLog' # NULL /\ spawnLog'.settled)]_vars
  /\ [][(Running /\ spawnLog' # NULL) => topLine' = topLine + 1]_vars
  /\ (Owed = 1) ~> (Owed = 0 /\ fallingAnimation = NULL)

(* A frame, not the release itself, made the insertion a release had asked  *)
(* for, after the settle of the placement had run through an animation.     *)
C17_Witness ==
  /\ topLine >= BOOT_SPAWNS
  /\ spawnLog # NULL
  /\ placement = NULL
  /\ spawnLog.settled

----------------------------------------------------------------------------
(* The columns of a row that hold a block, and those that hold block id. *)
Filled(row) == {x \in DOMAIN row : row[x].color # COLOR_BACKGROUND}

RunOf(row, id) == {x \in DOMAIN row : row[x].blockId = id}

(* C18: in every row generateNextRow returns, at most GenMaxSpawn cells     *)
(* (the budget MAX_BLOCK_SPAWN of the generator) are filled; the cells of   *)
(* each block id are 1 to 4 in number and next to one another, so that      *)
(* every maximal run has a length from 1 to 4 and no two runs share an id;  *)
(* and every cell without a block id has the background colour, every cell  *)
(* with one a colour of the palette.                                        *)
C18_GeneratedRowWellFormed ==
  nextRow # NO_ROW =>
    /\ DOMAIN nextRow = 0..(GenWidth - 1)
    /\ Cardinality(Filled(nextRow)) <= GenMaxSpawn
    /\ \A x \in DOMAIN nextRow :
         LET run == RunOf(nextRow, nextRow[x].blockId)
         IN  IF nextRow[x].blockId = NO_BLOCK
             THEN nextRow[x].color = COLOR_BACKGROUND
             ELSE /\ nextRow[x].color # COLOR_BACKGROUND
                  /\ Cardinality(run) >= 1
                  /\ Cardinality(run) <= 4
                  /\ \A a, b \in run : \A m \in a..b : m \in run

(* A generated row uses its whole budget: a run of four cells, and other    *)
(* runs right after it.                                                     *)
C18_Witness ==
  /\ nextRow # NO_ROW
  /\ Cardinality(Filled(nextRow)) = GenMaxSpawn
  /\ \E x \in DOMAIN nextRow :
       /\ Cardinality(RunOf(nextRow, nextRow[x].blockId)) = 4
       /\ nextRow[x].blockId # NO_BLOCK
       /\ x + 1 \in DOMAIN nextRow
       /\ nextRow[x + 1].blockId \notin {NO_BLOCK, nextRow[x].blockId}

----------------------------------------------------------------------------
(* C19: the score is never negative, and no pointer-event handler, frame or *)
(* bootstrap step leaves it lower than it found it.                         *)
C19_ScoreNeverDecreases ==
  /\ [](score >= 0)
  /\ [][score' >= score]_vars

(* A row was cleared and the settle goes on: the score is 1 or more while   *)
(* an animation is pending, with frames and a spawn still to come.          *)
C19_Witness == score >= 1 /\ fallingAnimation # NULL

----------------------------------------------------------------------------
(* C20: in every reachable state each cell of the grid, and each cell of    *)
(* the next-row buffer once it is filled, has no block id exactly when its  *)
(* colour is the background colour.                                         *)
C20_NoIdIffBackground ==
  /\ \A i \in DOMAIN grid :
       grid[i].blockId = NO_BLOCK <=> grid[i].color = COLOR_BACKGROUND
  /\ \A x \in DOMAIN nextRow :
       nextRow[x].blockId = NO_BLOCK <=> nextRow[x].color = COLOR_BACKGROUND

(* A block was picked up, moved and put down, and a row inserted after it:  *)
(* the grid holds coloured and empty cells, the buffer a coloured cell.     *)
C20_Witness ==
  /\ placement # NULL
  /\ spawnLog # NULL
  /\ \E i, j \in DOMAIN grid :
       grid[i].color # COLOR_BACKGROUND /\ grid[j].color = COLOR_BACKGROUND
  /\ \E x \in DOMAIN nextRow : nextRow[x].color # COLOR_BACKGROUND

----------------------------------------------------------------------------
(* The positions next to position p, inside the grid or not. *)
Adjacent(p) == {Pos(p.x + 1, p.y), Pos(p.x - 1, p.y), Pos(p.x, p.y + 1), Pos(p.x, p.y - 1)}

(* The members of `among` joined to a member of S by a path of adjacent     *)
(* members of `among`.                                                      *)
RECURSIVE Joined(_, _)
Joined(S, among) ==
  LET more == {p \in among \ S : Adjacent(p) \cap S # {}}
  IN  IF more = {} THEN S ELSE Joined(S \cup more, among)

----------------------------------------------------------------------------
(* The positions listed in a sequence of cells. *)
Listed(cells) == {cells[i] : i \in 1..Len(cells)}

(* C22: a press that selects a block starts the selection at offset 0, with *)
(* baseCells and cells both the cells the block had on the grid, each once, *)
(* and empties exactly those grid cells; while the selection lasts, the id  *)
(* of the selected block is on no grid cell, and cells is baseCells with    *)
(* every x moved by the current offset and every y as it was.               *)
C22_SelectionHeldOffTheGrid ==
  /\ [][(selectedBlock = NULL /\ selectedBlock' # NULL) =>
          /\ selectedBlock'.offset = 0
          /\ selectedBlock'.cells = selectedBlock'.baseCells
          /\ Listed(selectedBlock'.baseCells) = CellsOf(grid, selectedBlock'.blockId)
          /\ Len(selectedBlock'.baseCells) = Cardinality(CellsOf(grid, selectedBlock'.blockId))
          /\ selectedBlock'.blockId # NO_BLOCK
          /\ grid' = [i \in DOMAIN grid |->
                        IF grid[i].blockId = selectedBlock'.blockId
                        THEN [color |-> COLOR_BACKGROUND, blockId |-> NO_BLOCK]
                        ELSE grid[i]]]_vars
  /\ [](selectedBlock # NULL =>
          /\ CellsOf(grid, selectedBlock.blockId) = {}
          /\ Len(selectedBlock.cells) = Len(selectedBlock.baseCells)
          /\ \A i \in 1..Len(selectedBlock.baseCells) :
               /\ selectedBlock.cells[i].x = selectedBlock.baseCells[i].x + selectedBlock.offset
               /\ selectedBlock.cells[i].y = selectedBlock.baseCells[i].y)

(* A selected block of two cells has been dragged off its base cells. *)
C22_Witness ==
  /\ selectedBlock # NULL
  /\ Len(selectedBlock.baseCells) = 2
  /\ selectedBlock.offset # 0

----------------------------------------------------------------------------
(* C23: on every grid, for every start cell and every id, collectBlockCells *)
(* returns no cell when the id is null or the start cell does not carry it, *)
(* and otherwise the cells of that id joined to the start cell by a path of *)
(* 4-adjacent cells of that id, each listed once, all inside the grid; and  *)
(* the fill from any cell of the result lists the same cells.  The fill the *)
(* mousemove listener stored is the one of the block it names.              *)
C23_FillIsConnectedComponent ==
  /\ \A x \in 0..(WIDTH - 1), y \in 0..(HEIGHT - 1), id \in 0..(FloodIds + 1) :
       LET cells == collectBlockCells(grid, x, y, id)
       IN  IF id = NO_BLOCK \/ grid[idx(x, y)].blockId # id
           THEN cells = << >>
           ELSE /\ Listed(cells) = Joined({Pos(x, y)}, CellsOf(grid, id))
                /\ Cardinality(Listed(cells)) = Len(cells)
                /\ \A p \in Listed(cells) :
                     Listed(collectBlockCells(grid, p.x, p.y, id)) = Listed(cells)
  /\ hoveredBlock # NULL =>
       \E p \in Listed(hoveredBlock.cells) :
         /\ grid[idx(p.x, p.y)].blockId = hoveredBlock.blockId
         /\ Listed(hoveredBlock.cells) = Joined({p}, CellsOf(grid, hoveredBlock.blockId))

(* The pointer is over a block of three cells around a corner, and the grid *)
(* holds more cells of the same id that are not joined to it.               *)
C23_Witness ==
  /\ hoveredBlock # NULL
  /\ Len(hoveredBlock.cells) = 3
  /\ \E p, q \in Listed(hoveredBlock.cells) : p.x # q.x /\ p.y # q.y
  /\ CellsOf(grid, hoveredBlock.blockId) \ Listed(hoveredBlock.cells) # {}

----------------------------------------------------------------------------
(* The cells can fall d rows: every row passed is inside the grid and every *)
(* grid cell passed is empty.                                               *)
CanFall(g, cells, d) ==
  \A k \in 1..d : \A i \in 1..Len(cells) :
    /\ cells[i].y + k < HEIGHT
    /\ g[cells[i].y * WIDTH + k * WIDTH + cells[i].x].color = COLOR_BACKGROUND

LargestFall(g, cells) ==
  CHOOSE d \in 0..HEIGHT :
    CanFall(g, cells, d) /\ \A e \in 0..HEIGHT : CanFall(g, cells, e) => e <= d

(* C24: for the cells of every selection, computeDropDistance is the        *)
(* largest d >= 0 such that the cells can fall d rows; every release        *)
(* records that distance in its placement, and for a block of one row r     *)
(* with only empty cells below it the distance is HEIGHT - 1 - r.           *)
C24_DropDistanceIsLargestFall ==
  /\ [](selectedBlock # NULL =>
          computeDropDistance(grid, selectedBlock.cells)
            = LargestFall(grid, selectedBlock.cells))
  /\ [][(selectedBlock # NULL /\ placement' # NULL) =>
          /\ placement'.cells = selectedBlock.cells
          /\ placement'.dropDistance = LargestFall(grid, selectedBlock.cells)
          /\ \A r \in 0..(HEIGHT - 1) :
               (\A i \in 1..Len(selectedBlock.cells) :
                  /\ selectedBlock.cells[i].y = r
                  /\ \A y \in (r + 1)..(HEIGHT - 1) :
                       grid[idx(selectedBlock.cells[i].x, y)].color = COLOR_BACKGROUND)
               => placement'.dropDistance = HEIGHT - 1 - r]_vars

(* A block of two rows was released one row above where it comes to rest:   *)
(* one of its columns could fall further than the other.                    *)
C24_Witness ==
  /\ placement # NULL
  /\ placement.dropDistance = 1
  /\ \E i, j \in 1..Len(placement.cells) :
       /\ placement.cells[i].y # placement.cells[j].y
       /\ placement.cells[i].x # placement.cells[j].x
       /\ CanFall(grid, << placement.cells[i] >>, 2)

----------------------------------------------------------------------------
(* The block ids on the cells of a row buffer. *)
RowIds(row) == {row[x].blockId : x \in DOMAIN row} \ {NO_BLOCK}

(* The block ids held on the grid, by the selection and by the pending      *)
(* animation.                                                               *)
HeldIds ==
  BlockIds(grid)
    \cup (IF selectedBlock = NULL THEN {} ELSE {selectedBlock.blockId})
    \cup (IF fallingAnimation = NULL THEN {}
          ELSE {fallingAnimation.moves[i].blockId : i \in 1..Len(fallingAnimation.moves)}
                 \cup (IF fallingAnimation.finalize = NULL THEN {}
                       ELSE {fallingAnimation.finalize.blockId}))

(* C25: nextBlockId returns a positive integer above the counter it is      *)
(* given; the counter never goes down; every id on the grid, in the         *)
(* next-row buffer, in the selection or in the pending animation is from 1  *)
(* to the current counter; an id that a step brings in is above the counter *)
(* the step started from, so above every id issued before; and the ids of   *)
(* the next-row buffer, one per run of cells, are held nowhere else.        *)
C25_BlockIdsNeverReused ==
  /\ [](\A c \in 0..MaxBlockId : nextBlockId(c) > c /\ nextBlockId(c) > 0)
  /\ [](HeldIds \cup RowIds(nextRow) \subseteq 1..blockCounter)
  /\ [](HeldIds \cap RowIds(nextRow) = {})
  /\ [](\A id \in RowIds(nextRow) :
          \A a, b \in RunOf(nextRow, id) : \A m \in a..b : m \in RunOf(nextRow, id))
  /\ [][/\ blockCounter' >= blockCounter
        /\ (HeldIds \cup RowIds(nextRow))' \ (HeldIds \cup RowIds(nextRow))
             \subseteq (blockCounter + 1)..blockCounter']_vars

(* After a move, three ids are in use at once: two blocks on the grid and a *)
(* third in the next-row buffer.                                            *)
C25_Witness ==
  /\ placement # NULL
  /\ Cardinality(BlockIds(grid)) = 2
  /\ Cardinality(RowIds(nextRow)) = 1
  /\ blockCounter = 3

----------------------------------------------------------------------------
(* Grid h is grid g moved up one row: each row above the bottom one holds   *)
(* what the row below it held, the bottom row is empty, and what the top    *)
(* row held is gone.                                                        *)
MovedUp(g, h) ==
  /\ DOMAIN h = DOMAIN g
  /\ \A x \in 0..(WIDTH - 1) :
       /\ \A y \in 1..(HEIGHT - 1) : h[(y - 1) * WIDTH + x] = g[y * WIDTH + x]
       /\ h[(HEIGHT - 1) * WIDTH + x] = [color |-> COLOR_BACKGROUND, blockId |-> NO_BLOCK]

(* C26: every moveBlocksUp call a handler made moved the grid up one row    *)
(* (row y-1 becomes the former row y, the former row 0 is dropped, the      *)
(* bottom row is empty), raised the row-shift count by exactly 1, and left  *)
(* the score and the pending animation as they were; applied to any         *)
(* reachable state, moveBlocksUp changes the grid and the count in that way *)
(* and no other global, whether or not the top row holds blocks.            *)
C26_ShiftMovesRowsUpByOne ==
  /\ \A i \in Steps("shifted") :
       /\ i > 1
       /\ call.trace[i - 1].ev = "shift"
       /\ MovedUp(call.trace[i - 1].grid, call.trace[i].grid)
       /\ call.trace[i].topLine = call.trace[i - 1].topLine + 1
       /\ call.trace[i].score = call.trace[i - 1].score
       /\ call.trace[i].anim = call.trace[i - 1].anim
  /\ \A i \in Steps("shift") : i < Len(call.trace) /\ call.trace[i + 1].ev = "shifted"
  /\ MovedUp(grid, moveBlocksUp(World).grid)
  /\ Prog(moveBlocksUp(World)) =
       Prog([World EXCEPT !.grid = moveBlocksUp(World).grid, !.topLine = topLine + 1])

(* A spawn of the last handler shifted a grid whose top row held a block:   *)
(* the block was dropped and the handler went on.                           *)
C26_Witness ==
  \E i \in Steps("shifted") :
    /\ \E x \in 0..(WIDTH - 1) : call.trace[i - 1].grid[x].color # COLOR_BACKGROUND
    /\ Cardinality(Occupied(call.trace[i].grid)) < Cardinality(Occupied(call.trace[i - 1].grid))
    /\ i < Len(call.trace)
    /\ spawnLog # NULL
    /\ topLine = call.trace[i].topLine

----------------------------------------------------------------------------
(* C27: in every reachable state where a block is selected or an animation  *)
(* is pending, applyGravity, with or without collectMoves, returns          *)
(* moved = false and an empty move list and leaves every global as it was;  *)
(* and no step taken while a block stays selected, whatever the drag,       *)
(* changes a grid cell, nor does the press that selects change any cell but *)
(* the block's own.                                                         *)
C27_GravityGatedWhileHeldOrFalling ==
  /\ []((selectedBlock # NULL \/ fallingAnimation # NULL) =>
          \A collectMoves \in BOOLEAN :
            /\ ~applyGravity(World, collectMoves).moved
            /\ applyGravity(World, collectMoves).moves = << >>
            /\ Prog(applyGravity(World, collectMoves).w) = Prog(World))
  /\ [][(selectedBlock # NULL /\ selectedBlock' # NULL) => grid' = grid]_vars
  /\ [][(selectedBlock = NULL /\ selectedBlock' # NULL) =>
          \A i \in DOMAIN grid :
            grid'[i] # grid[i] => grid[i].blockId = selectedBlock'.blockId]_vars

(* A block has been picked up from under another and dragged aside: the     *)
(* block that lay on it hangs over an empty cell, and stays.                *)
C27_Witness ==
  /\ selectedBlock # NULL
  /\ selectedBlock.offset # 0
  /\ \E id \in BlockIds(grid) : ~Rests(grid, id)

----------------------------------------------------------------------------
(* C28: in every reachable state at most one of selectedBlock and           *)
(* fallingAnimation is non-null.                                            *)
C28_NeverHeldAndFalling == selectedBlock = NULL \/ fallingAnimation = NULL

(* A release has just ended a selection and started the fall of its block:  *)
(* the animation is pending and nothing is selected.                        *)
C28_Witness ==
  /\ fallingAnimation # NULL
  /\ fallingAnimation.finalize # NULL
  /\ placement # NULL
  /\ selectedBlock = NULL

----------------------------------------------------------------------------
(* Block id of grid g could fall a row: none of its cells is on the floor   *)
(* and under each there is an empty cell or a cell of the block itself.     *)
Hangs(g, id) ==
  \A p \in CellsOf(g, id) :
    /\ p.y < HEIGHT - 1
    /\ \/ g[(p.y + 1) * WIDTH + p.x].color = COLOR_BACKGROUND
       \/ g[(p.y + 1) * WIDTH + p.x].blockId = id

Idle == selectedBlock = NULL /\ fallingAnimation = NULL

(* C29: in every reachable state with no selection and no pending animation *)
(* no block of the grid could fall a row and no row is full; so every press *)
(* that selects a block finds the board in that condition.                  *)
C29_IdleBoardIsStable ==
  /\ [](Idle =>
          /\ \A id \in BlockIds(grid) : ~Hangs(grid, id)
          /\ \A y \in 0..(HEIGHT - 1) :
               \E x \in 0..(WIDTH - 1) : grid[y * WIDTH + x].color = COLOR_BACKGROUND)
  /\ [][(selectedBlock = NULL /\ selectedBlock' # NULL) =>
          /\ Idle
          /\ \A id \in BlockIds(grid) : ~Hangs(grid, id)]_vars

(* The game is idle after a row was cleared, with a block left on the grid. *)
C29_Witness ==
  /\ Idle
  /\ score >= 1
  /\ BlockIds(grid) # {}

----------------------------------------------------------------------------
(* The placement a step commits: the one its release computed when the      *)
(* step is a release, the pending finalize of the animation otherwise.      *)
Committed(held, released, pending) ==
  IF held # NULL THEN released ELSE pending.finalize

(* The grid indices of the cells of placement p after its fall. *)
TargetsOf(p) ==
  {(p.cells[k].y + p.dropDistance) * WIDTH + p.cells[k].x : k \in 1..Len(p.cells)}

(* C30: every run of finalizePlacement, at a release with dropDistance 0    *)
(* and at the completion of a drop animation alike, writes only cells that  *)
(* are inside the grid and were empty just before the write: one cell per   *)
(* cell of the block, every other cell of the grid left as it was, so that  *)
(* every block already on the grid keeps exactly its cells and the placed   *)
(* block holds exactly the cells written.                                   *)
C30_PlacementWritesOnlyEmptyCells ==
  [][\A i \in (Steps("placed"))' :
       LET p      == Committed(selectedBlock, placement', fallingAnimation)
           before == IF i = 1 THEN grid ELSE call'.trace[i - 1].grid
           after  == call'.trace[i].grid
       IN  /\ (selectedBlock # NULL) <=> (p.dropDistance = 0)
           /\ (selectedBlock = NULL) <=> FallPending
           /\ call'.trace[i].n = p.dropDistance
           /\ \A k \in 1..Len(p.cells) :
                /\ p.cells[k].x \in 0..(WIDTH - 1)
                /\ p.cells[k].y + p.dropDistance \in 0..(HEIGHT - 1)
           /\ Cardinality(TargetsOf(p)) = Len(p.cells)
           /\ \A t \in TargetsOf(p) :
                /\ before[t] = makeCell(COLOR_BACKGROUND, NO_BLOCK)
                /\ after[t] = makeCell(p.color, p.blockId)
           /\ \A j \in DOMAIN before \ TargetsOf(p) : after[j] = before[j]
           /\ \A id \in BlockIds(before) : CellsOf(after, id) = CellsOf(before, id)
           /\ p.blockId \notin BlockIds(before)
           /\ Cardinality(CellsOf(after, p.blockId)) = Len(p.cells)]_vars

(* A release committed at once a block that the player had moved sideways   *)
(* onto free cells of a grid that holds another block.                      *)
C30_Witness ==
  /\ placement # NULL
  /\ placement.dropDistance = 0
  /\ placement.shouldSpawn
  /\ \E i \in Steps("placed") :
       /\ i = 1
       /\ Cardinality(BlockIds(call.trace[i].grid)) >= 2

----------------------------------------------------------------------------
(* The number of cells of block id: of the selection when the block is      *)
(* held, of the pending finalize when the block is falling after a release, *)
(* on grid g otherwise.                                                     *)
CellCount(g, held, anim, id) ==
  IF held # NULL /\ held.blockId = id
  THEN Len(held.cells)
  ELSE IF anim # NULL /\ anim.finalize # NULL /\ anim.finalize.blockId = id
       THEN Len(anim.finalize.cells)
       ELSE Cardinality(CellsOf(g, id))

(* Block id of grid h is gone from it or has the number of cells it has on  *)
(* grid g.                                                                  *)
WholeOrGone(g, h, id) ==
  \/ CellsOf(h, id) = {}
  \/ Cardinality(CellsOf(h, id)) = Cardinality(CellsOf(g, id))

(* C31: the cells of every block id on the grid lie in one row, next to one *)
(* another, 1 to MAX_SEGMENT_LEN in number; every clearFullLines call and   *)
(* every row shift removes a block with all its cells or leaves it all its  *)
(* cells; and from one state to the next a block that stays in the game, on *)
(* the grid, in the selection or in the pending finalize, keeps the number  *)
(* of its cells.                                                            *)
C31_BlocksStayWholeRowRuns ==
  /\ [](\A id \in BlockIds(grid) :
          /\ \A p, q \in CellsOf(grid, id) :
               /\ p.y = q.y
               /\ \A x \in p.x..q.x : Pos(x, p.y) \in CellsOf(grid, id)
          /\ Cardinality(CellsOf(grid, id)) \in 1..MAX_SEGMENT_LEN)
  /\ [](\A c \in ClearCalls :
          \A id \in BlockIds(c.before) : WholeOrGone(c.before, c.after, id))
  /\ [](\A i \in Steps("shifted") :
          /\ call.trace[i - 1].ev = "shift"
          /\ \A id \in BlockIds(call.trace[i - 1].grid) :
               WholeOrGone(call.trace[i - 1].grid, call.trace[i].grid, id))
  /\ [][\A id \in HeldIds \cap HeldIds' :
          CellCount(grid', selectedBlock', fallingAnimation', id)
            = CellCount(grid, selectedBlock, fallingAnimation, id)]_vars

(* A row shift discarded a block of two cells that lay in row 0, and a      *)
(* block of two cells is on the grid afterwards.                            *)
C31_Witness ==
  /\ \E i \in Steps("shifted") :
       \E id \in BlockIds(call.trace[i - 1].grid) :
         /\ CellsOf(call.trace[i - 1].grid, id) \subseteq {Pos(x, 0) : x \in 0..(WIDTH - 1)}
         /\ Cardinality(CellsOf(call.trace[i - 1].grid, id)) = 2
         /\ CellsOf(call.trace[i].grid, id) = {}
  /\ \E id \in BlockIds(grid) : Cardinality(CellsOf(grid, id)) = 2

----------------------------------------------------------------------------
(* What settleBoard({animate: false}) makes of the board and the score of   *)
(* trace step t, with no selection and no animation.                        *)
SettledAtOnce(t) ==
  SettleNow([Prog(World) EXCEPT !.grid = t.grid, !.score = t.score,
                                !.selectedBlock = NULL, !.fallingAnimation = NULL])

(* The animated settles of trace tr that step j brings to their end: those  *)
(* entered since the end of the settle before.                              *)
EndedAt(tr, j) ==
  {i \in StepsOf(tr, "animate") :
     i < j /\ \A k \in StepsOf(tr, "animated") : ~(i < k /\ k < j)}

(* C32: when an animated settle that began on a board with no selection and *)
(* no animation comes to its end, after as many frames as its animations    *)
(* took, the grid is the grid settleBoard({animate: false}) makes of the    *)
(* board it began on, and the score has grown by what that call returns.    *)
C32_AnimatedSettleEqualsSyncSettle ==
  /\ \A i \in Steps("animate") :
       ~call.trace[i].anim
  /\ \A j \in Steps("animated") :
       /\ EndedAt(call.trace, j) # {}
       /\ \A i \in EndedAt(call.trace, j) :
            /\ call.trace[j].grid = SettledAtOnce(call.trace[i]).w.grid
            /\ call.trace[j].score
                 = call.trace[i].score + SettledAtOnce(call.trace[i]).totalCleared
            /\ call.trace[j].topLine = call.trace[i].topLine

(* An animated settle ended that cleared a row and took a frame to let      *)
(* blocks fall.                                                             *)
C32_Witness ==
  \E j \in Steps("animated") :
    \E i \in EndedAt(call.trace, j) :
      /\ call.trace[j].score > call.trace[i].score
      /\ \E k \in Steps("complete") : i < k /\ k < j
      /\ Occupied(call.trace[j].grid) # {}

----------------------------------------------------------------------------
(* The grid with the block of selection s back on the cells it was taken    *)
(* from.                                                                    *)
PutBack(g, s) == WriteCells(g, s.baseCells, 0, s.color, s.blockId)

(* The held block is where it was taken from and no spawn is owed for it:   *)
(* its offset is 0 and, where index.js looks at selectionMoved, no drag has *)
(* moved it.                                                                *)
Unmoved ==
  /\ selectedBlock # NULL
  /\ selectedBlock.offset = 0
  /\ variant = "index" => ~selectionMoved

(* C33: a select on a board with no animation takes the block's cells off   *)
(* the grid and nothing else; while the block is held the grid and the      *)
(* cells it was taken from stay as they are; and a release at offset 0,     *)
(* after no drag or, in part_000, after drags that ended at offset 0, puts  *)
(* the block back, which makes the grid cell for cell what it was before    *)
(* the select, with no animation started, no row inserted and the score,    *)
(* the row-shift count and the next row unchanged.                          *)
C33_ReleaseInPlaceRestoresBoard ==
  /\ [][(selectedBlock = NULL /\ selectedBlock' # NULL) =>
          /\ Idle
          /\ PutBack(grid', selectedBlock') = grid
          /\ \A i \in 1..Len(selectedBlock'.baseCells) :
               grid'[idx(selectedBlock'.baseCells[i].x, selectedBlock'.baseCells[i].y)]
                 = makeCell(COLOR_BACKGROUND, NO_BLOCK)
          /\ score' = score /\ topLine' = topLine]_vars
  /\ [][(selectedBlock # NULL /\ selectedBlock' # NULL) =>
          /\ grid' = grid
          /\ PutBack(grid', selectedBlock') = PutBack(grid, selectedBlock)
          /\ score' = score /\ topLine' = topLine
          /\ fallingAnimation' = NULL]_vars
  /\ [][(Unmoved /\ selectedBlock' = NULL) =>
          /\ grid' = PutBack(grid, selectedBlock)
          /\ grid' # grid
          /\ placement'.dropDistance = 0
          /\ ~placement'.shouldSpawn
          /\ fallingAnimation' = NULL
          /\ spawnLog' = NULL
          /\ topLine' = topLine
          /\ nextRow' = nextRow
          /\ blockCounter' = blockCounter
          /\ score' = score]_vars

(* A block that carries another block was released where it was taken      *)
(* from: it is back under the block it carries and no row was inserted.     *)
C33_Witness ==
  /\ placement # NULL
  /\ ~placement.shouldSpawn
  /\ spawnLog = NULL
  /\ Idle
  /\ \E k \in 1..Len(placement.cells) :
       /\ placement.cells[k].y > 0
       /\ grid[idx(placement.cells[k].x, placement.cells[k].y)].blockId = placement.blockId
       /\ grid[idx(placement.cells[k].x, placement.cells[k].y - 1)].blockId # NO_BLOCK

----------------------------------------------------------------------------
(* One sweep of applyGravity over grid g, with its moves collected. *)
FirstSweep(g) == GravitySweep(g, 1, {}, << >>, FALSE, TRUE)

(* C34: for every ungated applyGravity call, made on the board the program  *)
(* had at the call: the first sweep already yields the grid the call        *)
(* leaves and the moves it returns, and a second sweep moves nothing,       *)
(* records nothing and leaves the grid; no two move records carry the same  *)
(* block id; each record holds the cells and the colour its block had       *)
(* before the call and a dropDistance > 0 that takes those cells to the     *)
(* cells the block has after the call; and the blocks with a record are     *)
(* the blocks whose cells changed.  The moves of the animation that an      *)
(* animated settle of the last handler installed are the moves of such a    *)
(* call.                                                                    *)
C34_OneMoveRecordPerFallenBlock ==
  /\ \A c \in GravityCalls :
       LET Check(first, whole, second) ==
             /\ whole.grid = c.after
             /\ first.grid = c.after
             /\ first.moves = whole.moves
             /\ first.moved = whole.moved
             /\ ~second.moved /\ second.moves = << >> /\ second.grid = first.grid
             /\ \A a, b \in 1..Len(whole.moves) :
                  a # b => whole.moves[a].blockId # whole.moves[b].blockId
             /\ \A a \in 1..Len(whole.moves) :
                  LET m == whole.moves[a]
                  IN  /\ m.dropDistance > 0
                      /\ Len(m.cells) = Cardinality(CellsOf(c.before, m.blockId))
                      /\ {m.cells[k] : k \in 1..Len(m.cells)} = CellsOf(c.before, m.blockId)
                      /\ \A k \in 1..Len(m.cells) :
                           c.before[idx(m.cells[k].x, m.cells[k].y)].color = m.color
                      /\ CellsOf(c.after, m.blockId)
                           = {Pos(m.cells[k].x, m.cells[k].y + m.dropDistance)
                              : k \in 1..Len(m.cells)}
             /\ {whole.moves[a].blockId : a \in 1..Len(whole.moves)}
                  = {id \in BlockIds(c.before) : CellsOf(c.after, id) # CellsOf(c.before, id)}
       IN  Check(FirstSweep(c.before),
                 GravityLoop(c.before, << >>, FALSE, TRUE),
                 FirstSweep(c.after))
  /\ (fallingAnimation # NULL /\ fallingAnimation.finalize = NULL
        /\ Steps("animate") # {}) =>
       \E c \in GravityCalls :
         /\ c.after = grid
         /\ GravityLoop(c.before, << >>, FALSE, TRUE).moves = fallingAnimation.moves

(* One call made two blocks fall, one of them onto the other, and an        *)
(* animated settle installed both moves.                                    *)
C34_Witness ==
  /\ fallingAnimation # NULL
  /\ fallingAnimation.finalize = NULL
  /\ Len(fallingAnimation.moves) = 2
  /\ \E c \in GravityCalls :
       /\ c.after = grid
       /\ \E a, b \in BlockIds(c.before) :
            /\ a # b
            /\ 0 \notin FallOf(c, a) /\ 0 \notin FallOf(c, b)
            /\ \E p \in CellsOf(c.after, a) :
                 p.y < HEIGHT - 1 /\ c.after[idx(p.x, p.y + 1)].blockId = b

----------------------------------------------------------------------------
(* C35: no handler enters settleBoard with animate true while an animation  *)
(* is pending: the branch that queues a continuation is never taken, every  *)
(* animated settle starts with the slot empty, and no step appends a        *)
(* continuation to a pending animation; so a pending animation holds the    *)
(* one continuation it was installed with, and none when it holds a         *)
(* finalize.                                                                *)
C35_AnimatedSettleNeverQueued ==
  /\ [](Steps("queued") = {})
  /\ [](\A i \in Steps("animate") : ~call.trace[i].anim)
  /\ [](fallingAnimation # NULL =>
          /\ Len(fallingAnimation.after) <= 1
          /\ fallingAnimation.finalize # NULL => Len(fallingAnimation.after) = 0
          /\ fallingAnimation.finalize = NULL => Len(fallingAnimation.after) = 1)
  /\ [][(fallingAnimation # NULL /\ fallingAnimation' # NULL
           /\ (Steps("complete"))' = {}) =>
          fallingAnimation'.after = fallingAnimation.after]_vars

(* The frame that completed one animation ran its continuation, whose       *)
(* settle cleared a row and installed the next animation, with one          *)
(* continuation.                                                            *)
C35_Witness ==
  /\ Steps("complete") = {1}
  /\ Steps("continuation") = {2}
  /\ Cardinality(Steps("animate")) >= 2
  /\ fallingAnimation # NULL
  /\ Len(fallingAnimation.after) = 1

----------------------------------------------------------------------------
(* The frames of the last handler that found an animation. *)
Frames == {c \in call.log : c.op = "render"}

(* The largest dropDistance among the moves of an animation. *)
LongestDrop(moves) ==
  CHOOSE d \in {moves[i].dropDistance : i \in 1..Len(moves)} :
    \A i \in 1..Len(moves) : moves[i].dropDistance <= d

(* The timestamps a frame can have after a frame at timestamp t. *)
FrameTimes(t) == {t + k * TickUnit : k \in 1..MaxTickGap}

(* C36: a pending animation has moves and the duration                      *)
(* max(MIN_FALL_DURATION, largest dropDistance * FALL_ANIMATION_PER_ROW),   *)
(* and once it has a start time every frame so far came less than that      *)
(* duration after it.  A step that is no frame leaves the animation as it   *)
(* is.  The first frame that finds the animation records its own timestamp  *)
(* as the start time, measures 0 elapsed and leaves the animation pending.  *)
(* A later frame measures its timestamp minus the start time: below the     *)
(* duration it leaves the animation as it is, from the duration on it       *)
(* completes it, so that the slot is empty or holds a newly installed       *)
(* animation.                                                               *)
C36_AnimationRunsItsDuration ==
  /\ [](fallingAnimation # NULL =>
          /\ Len(fallingAnimation.moves) > 0
          /\ fallingAnimation.duration >= MIN_FALL_DURATION
          /\ fallingAnimation.duration
               >= LongestDrop(fallingAnimation.moves) * FALL_ANIMATION_PER_ROW
          /\ fallingAnimation.duration
               \in {MIN_FALL_DURATION,
                    LongestDrop(fallingAnimation.moves) * FALL_ANIMATION_PER_ROW}
          /\ fallingAnimation.startTime # NO_TIME =>
               /\ now >= fallingAnimation.startTime
               /\ now - fallingAnimation.startTime < fallingAnimation.duration)
  /\ [][(fallingAnimation # NULL /\ Frames' = {}) =>
          fallingAnimation' = fallingAnimation]_vars
  /\ [][(fallingAnimation # NULL /\ Frames' # {}) =>
          \A r \in Frames' :
            /\ Frames' = {r}
            /\ fallingAnimation.startTime = NO_TIME =>
                 /\ r.ret = 0
                 /\ now' \in FrameTimes(now)
                 /\ fallingAnimation' = [fallingAnimation EXCEPT !.startTime = now']
                 /\ (Steps("complete"))' = {}
            /\ fallingAnimation.startTime # NO_TIME =>
                 /\ r.ret + fallingAnimation.startTime \in FrameTimes(now)
                 /\ r.ret < fallingAnimation.duration =>
                      /\ fallingAnimation' = fallingAnimation
                      /\ now' = fallingAnimation.startTime + r.ret
                      /\ (Steps("complete"))' = {}
                 /\ r.ret >= fallingAnimation.duration =>
                      /\ (Steps("complete"))' = {1}
                      /\ \/ fallingAnimation' = NULL
                         \/ fallingAnimation'.startTime = NO_TIME]_vars

(* A frame completed an animation of two rows' duration, coming later than  *)
(* the duration after its start.                                            *)
C36_Witness ==
  /\ Steps("complete") = {1}
  /\ \E r \in Frames : r.ret > 2 * FALL_ANIMATION_PER_ROW

====
